---- MODULE Spec2Model ----
(***************************************************************************)
(* State-machine model of the VATSIM statistics collector: the background  *)
(* reconciliation cycle (Collector.FetchAndStore / storeData /             *)
(* storeConnectionStats), its in-memory table of active connections and    *)
(* the durable tables it writes inside one SQL transaction.                *)
(*                                                                         *)
(* Time is counted in minutes.  Wall-clock time (time.Now()) is the        *)
(* variable now; the logon_time / last_updated values of a snapshot are    *)
(* inputs chosen by the snapshot source and are independent of now.        *)
(* Columns and fields that no decision of the collector reads (names,      *)
(* positions, servers, flight plans, facilities, ratings tables) are       *)
(* left out; the per-snapshot tables are kept as row counts.               *)
(***************************************************************************)
EXTENDS Integers, Sequences, FiniteSets, TLC

VARIABLES
    now,                \* wall clock, minutes (time.Now())
    lastUpdate,         \* Collector.lastUpdate: update token of the last stored snapshot (0 is "")
    activeConnections,  \* Collector.activeConnections: key -> activeConnection
    stats,              \* Collector.stats (types.CollectionStats)
    DB,                 \* db.DB: the committed contents of the durable tables
    last,               \* history: what the most recent collector call did
    loop,               \* main: the ticker channel and the position of the goroutines
    requests,           \* limiter.requests: client address -> ClientRequests
    api_keys,           \* the api_keys table
    env,                \* the process environment (MASTER_API_KEY)
    reply,              \* history: what the most recent HTTP request was answered
    forwarded           \* history: per client IP, the requests without a valid API
                        \* key that RateLimit passed on in the last windowDuration

vars == <<now, lastUpdate, activeConnections, stats, DB, last,
          loop, requests, api_keys, env, reply, forwarded>>

\* the state of the collector and of the database tables it writes
collectorVars == <<lastUpdate, activeConnections, stats, DB, last>>

\* the state of the HTTP side
serverVars == <<requests, api_keys, env, reply, forwarded>>

-----------------------------------------------------------------------------
(* Program constants *)

TypePilot == 1
TypeATC == 2
TypeATIS == 3

\* time.Now().Add(-5*time.Minute): the look-back of the existing-connection query
GraceMinutes == 5

\* flightTime := int(d.Minutes() / 60)
MinutesPerHour == 60

-----------------------------------------------------------------------------
(* Bounds of the model *)

\* the wall clock stops advancing here
MaxNow == 5
\* no cycle is started once the connections table holds this many rows
MaxRows == 3
\* no cycle is started once this many snapshots are stored
MaxSnapshots == 4
\* the same, for the runs with pilots and controllers together
MaxMixedSnapshots == 2

\* minutes the wall clock may advance between two collector calls
TickSteps == {GraceMinutes}

\* the update tokens the source hands out (0 stands for the empty string)
Tokens == {1, 2}

\* A feed is what the snapshot source may report: a set of pilot records and a set
\* of controller records, each with its last_updated given as an offset from the
\* wall clock (0: fresh, -GraceMinutes: not refreshed for the whole look-back).
\* text_atis is the sequence of the text_atis lines of a controller record.
Pilot(cid, callsign, rating, logon, offset) ==
    [cid |-> cid, callsign |-> callsign, pilot_rating |-> rating,
     logon_time |-> logon, offset |-> offset]

Controller(cid, callsign, rating, lines, logon, offset) ==
    [cid |-> cid, callsign |-> callsign, rating |-> rating, text_atis |-> lines,
     logon_time |-> logon, offset |-> offset]

\* the record of a snapshot taken now
Stamp(r) == [x \in (DOMAIN r \ {"offset"}) \cup {"last_updated"} |->
                IF x = "last_updated" THEN now + r.offset ELSE r[x]]

\* sequences over S of length at most 1
SeqUpTo1(S) == {<<>>} \cup {<<x>> : x \in S}

\* the snapshots a feed can hand out at the current wall-clock time
Snapshots(feed) ==
    [update : Tokens,
     pilots : SeqUpTo1({Stamp(r) : r \in feed.pilots}),
     controllers : SeqUpTo1({Stamp(r) : r \in feed.controllers})]

\* one pilot key, seen with a logon two hours back or a logon ahead of its
\* last_updated
PilotFeed ==
    [pilots |-> {Pilot(1, "AAL1", 4, l, 0) : l \in {-120, 70}},
     controllers |-> {}]

\* one pilot and one tower position that may or may not carry ATIS text
MixedFeed ==
    [pilots |-> {Pilot(1, "AAL1", 4, -120, 0)},
     controllers |-> {Controller(3, "EGLL_TWR", 2, lines, 0, 0) :
                         lines \in {<<>>, <<"INFO A">>}}]

-----------------------------------------------------------------------------
(* Helpers *)

\* key := fmt.Sprintf("%d-%s", cid, callsign)
Key(cid, callsign) == <<cid, callsign>>

\* Go's int(x / 60) on a float: truncation toward zero
TruncDiv(a, b) == IF a >= 0 THEN a \div b ELSE -((-a) \div b)

\* the k-th smallest element (k from 0) of a finite non-empty set of integers
RECURSIVE Nth(_, _)
Nth(S, k) ==
    LET m == CHOOSE x \in S : \A y \in S : x <= y
    IN IF k = 0 THEN m ELSE Nth(S \ {m}, k - 1)

\* all orderings of a finite set, as sequences
RECURSIVE Orders(_)
Orders(S) ==
    IF S = {} THEN {<<>>}
    ELSE UNION {{<<x>> \o o : o \in Orders(S \ {x})} : x \in S}

EmptyMap == [k \in {} |-> 0]

ZeroStats ==
    [LastUpdate |-> -1, TotalSnapshots |-> 0, ActivePilots |-> 0, ActiveATCs |-> 0,
     ActiveATIS |-> 0, ProcessedPilots |-> 0, StartTime |-> 0]

EmptyDB ==
    [connections |-> <<>>, pilot_stats |-> {}, atc_stats |-> {}, atis_stats |-> {},
     pilot_total_stats |-> EmptyMap, snapshots |-> 0, pilots |-> 0, controllers |-> 0]

\* history of a collector call: its result, the update token fetched, the number of
\* durable steps its transaction ran, the keys for which it inserted a connection
\* row (opened) and those it restored into memory from a durable row (reopened)
Call(result, update, writes, opened, reopened) ==
    [result |-> result, update |-> update, writes |-> writes,
     opened |-> opened, reopened |-> reopened]

NoCall == Call("none", 0, 0, {}, {})

\* the history of a stored cycle, with the keys of its snapshot
\* (currentConnections)
Seen(call, keys) == ("snapshot" :> keys) @@ call

-----------------------------------------------------------------------------
(* storeData: the existing-connection query *)

\* variant: ORDER BY start_time ASC
FindOldest(conns, cid, callsign, type, tb) ==
    LET cand == {i \in DOMAIN conns :
                    /\ conns[i].vatsim_id = cid
                    /\ conns[i].callsign = callsign
                    /\ conns[i].type = type
                    /\ conns[i].end_time > now - GraceMinutes}
        top == {i \in cand : \A j \in cand : conns[j].start_time >= conns[i].start_time}
    IN IF cand = {} THEN 0 ELSE Nth(top, tb % Cardinality(top))

\* variant: the query does not ask for the callsign
FindActiveOfIdentity(conns, cid, callsign, type, tb) ==
    LET cand == {i \in DOMAIN conns :
                    /\ conns[i].vatsim_id = cid
                    /\ conns[i].type = type
                    /\ conns[i].end_time > now - GraceMinutes}
        top == {i \in cand : \A j \in cand : conns[j].start_time <= conns[i].start_time}
    IN IF cand = {} THEN 0 ELSE Nth(top, tb % Cardinality(top))

\* SELECT id FROM connections WHERE vatsim_id = $1 AND callsign = $2 AND type = $3
\*   AND end_time > now - 5 min ORDER BY start_time DESC LIMIT 1
\* 0 is sql.ErrNoRows.  Rows with equal start_time are returned in an order SQL
\* leaves open: tb picks among them.
FindActive(conns, cid, callsign, type, tb) ==
    LET cand == {i \in DOMAIN conns :
                    /\ conns[i].vatsim_id = cid
                    /\ conns[i].callsign = callsign
                    /\ conns[i].type = type
                    /\ conns[i].end_time > now - GraceMinutes}
        top == {i \in cand : \A j \in cand : conns[j].start_time <= conns[i].start_time}
    IN IF cand = {} THEN 0 ELSE Nth(top, tb % Cardinality(top))

\* variant: a connection is tracked from the time it is first seen
NewActiveFromNow(cid, callsign, type, rating, logon, lu) ==
    [cid |-> cid, callsign |-> callsign, connectionType |-> type, rating |-> rating,
     startTime |-> now, lastSeen |-> lu, aircraftTracked |-> 0]

\* the activeConnection literal built for a record
NewActive(cid, callsign, type, rating, logon, lu) ==
    [cid |-> cid, callsign |-> callsign, connectionType |-> type, rating |-> rating,
     startTime |-> logon, lastSeen |-> lu, aircraftTracked |-> 0]

\* INSERT INTO connections (...) VALUES (...) RETURNING id
InsertConnection(tx, cid, type, rating, callsign, start, end) ==
    [tx EXCEPT !.connections =
        Append(@, [vatsim_id |-> cid, type |-> type, rating |-> rating,
                   callsign |-> callsign, start_time |-> start, end_time |-> end])]

\* The per-record part of storeData shared by the pilot and the controller loop:
\* look the connection up; insert a row and track it, or update the row found and
\* refresh / restore the tracked connection.  st = [tx, active, current] and the
\* history sets opened and reopened.
UpsertConnection(st, cid, callsign, type, rating, logon, lu, tb) ==
    LET key == Key(cid, callsign)
        existingConnID == FindActive(st.tx.connections, cid, callsign, type, tb)
        fresh == NewActive(cid, callsign, type, rating, logon, lu)
    IN IF existingConnID = 0
       THEN [st EXCEPT
               !.tx = InsertConnection(@, cid, type, rating, callsign, logon, lu),
               !.active = (key :> fresh) @@ @,
               !.opened = @ \cup {key}]
       ELSE [st EXCEPT
               !.tx.connections[existingConnID].end_time = lu,
               !.tx.connections[existingConnID].rating = rating,
               !.active = IF key \in DOMAIN @
                          THEN [@ EXCEPT ![key].lastSeen = lu, ![key].rating = rating]
                          ELSE (key :> fresh) @@ @,
               !.reopened = IF key \in DOMAIN st.active THEN @ ELSE @ \cup {key}]

\* one iteration of "for _, pilot := range data.Pilots"
ProcessPilot(st, pilot, tb) ==
    UpsertConnection(
        [st EXCEPT !.current = @ \cup {Key(pilot.cid, pilot.callsign)},
                   !.tx.pilots = @ + 1],
        pilot.cid, pilot.callsign, TypePilot, pilot.pilot_rating,
        pilot.logon_time, pilot.last_updated, tb)

\* if len(controller.TextAtis) > 0 { TypeATIS } else { TypeATC }
ControllerType(controller) ==
    IF Len(controller.text_atis) > 0 THEN TypeATIS ELSE TypeATC

\* one iteration of "for _, controller := range data.Controllers"
ProcessController(st, controller, tb) ==
    UpsertConnection(
        [st EXCEPT !.current = @ \cup {Key(controller.cid, controller.callsign)},
                   !.tx.controllers = @ + 1],
        controller.cid, controller.callsign, ControllerType(controller), controller.rating,
        controller.logon_time, controller.last_updated, tb)

-----------------------------------------------------------------------------
(* storeConnectionStats *)

\* flightTime := int(conn.lastSeen.Sub(conn.startTime).Minutes() / 60)
FlightTime(conn) == TruncDiv(conn.lastSeen - conn.startTime, MinutesPerHour)

\* variant: the hours are credited to every tier up to the pilot's rating
TierHoursUpToRating(rating, tier, flightTime) == IF rating >= tier THEN flightTime ELSE 0

\* CASE WHEN $3 = tier THEN $2 ELSE 0 END
TierHours(rating, tier, flightTime) == IF rating = tier THEN flightTime ELSE 0

\* INSERT INTO pilot_total_stats ... ON CONFLICT (vatsim_id) DO UPDATE SET ...
UpsertPilotTotals(totals, conn, flightTime) ==
    LET old == IF conn.cid \in DOMAIN totals THEN totals[conn.cid]
               ELSE [total_hours |-> 0, total_flights |-> 0, student_hours |-> 0,
                     ppl_hours |-> 0, instrument_hours |-> 0, cpl_hours |-> 0,
                     atpl_hours |-> 0, last_updated |-> 0]
        new == [total_hours |-> old.total_hours + flightTime,
                total_flights |-> old.total_flights + 1,
                student_hours |-> old.student_hours + TierHours(conn.rating, 1, flightTime),
                ppl_hours |-> old.ppl_hours + TierHours(conn.rating, 2, flightTime),
                instrument_hours |-> old.instrument_hours + TierHours(conn.rating, 3, flightTime),
                cpl_hours |-> old.cpl_hours + TierHours(conn.rating, 4, flightTime),
                atpl_hours |-> old.atpl_hours + TierHours(conn.rating, 5, flightTime),
                last_updated |-> conn.lastSeen]
    IN (conn.cid :> new) @@ totals

\* storeConnectionStats(tx, conn): the final connection record and the
\* type-specific statistics of an ended connection
storeConnectionStats(tx, conn) ==
    LET tx1 == InsertConnection(tx, conn.cid, conn.connectionType, conn.rating,
                                conn.callsign, conn.startTime, conn.lastSeen)
        connID == Len(tx1.connections)
    IN CASE conn.connectionType = TypePilot ->
              [tx1 EXCEPT
                 !.pilot_stats = @ \cup {[connection_id |-> connID,
                                          flight_time |-> FlightTime(conn),
                                          pilot_rating |-> conn.rating]},
                 !.pilot_total_stats = UpsertPilotTotals(@, conn, FlightTime(conn))]
         [] conn.connectionType = TypeATC ->
              [tx1 EXCEPT !.atc_stats = @ \cup {[connection_id |-> connID,
                                                 aircraft_tracked |-> conn.aircraftTracked]}]
         [] conn.connectionType = TypeATIS ->
              [tx1 EXCEPT !.atis_stats = @ \cup {[connection_id |-> connID,
                                                  updates |-> conn.aircraftTracked]}]
         [] OTHER -> tx1

-----------------------------------------------------------------------------------------------------------------------------------------------------
(* storeData *)

\* storeData runs a sequence of durable steps inside one transaction: the snapshot
\* insert, one step per pilot record, one per controller record, one per ended
\* connection, and the commit.  Each may return an error, on which storeData
\* returns at once.  A run is the sequence of the states storeData passes through:
\* run[k + 1] is its state [tx, active, current] after k steps have succeeded.

\* tx, err := db.DB.Begin(); currentConnections := make(map[string]bool)
Begin == [tx |-> DB, active |-> activeConnections, current |-> {},
          opened |-> {}, reopened |-> {}]

\* INSERT INTO snapshots ... RETURNING id (with the facilities and ratings upserts
\* before it: nothing in memory has changed when one of them fails)
InsertSnapshot(st) == [st EXCEPT !.tx.snapshots = @ + 1]

RECURSIVE ProcessPilots(_, _, _, _)
ProcessPilots(run, pilots, i, tb) ==
    IF i > Len(pilots) THEN run
    ELSE ProcessPilots(Append(run, ProcessPilot(run[Len(run)], pilots[i], tb)),
                       pilots, i + 1, tb)

RECURSIVE ProcessControllers(_, _, _, _)
ProcessControllers(run, controllers, i, tb) ==
    IF i > Len(controllers) THEN run
    ELSE ProcessControllers(
            Append(run, ProcessController(run[Len(run)], controllers[i], tb)),
            controllers, i + 1, tb)

\* variant: the ended connection is finalized but stays tracked
DisconnectKeepsKey(st, key) ==
    [st EXCEPT !.tx = storeConnectionStats(@, st.active[key])]

\* variant: the session is closed at the wall-clock time of the detection
DisconnectAtWallClock(st, key) ==
    [st EXCEPT !.tx = storeConnectionStats(@, [st.active[key] EXCEPT !.lastSeen = now]),
               !.active = [k \in DOMAIN @ \ {key} |-> @[k]]]

\* if !currentConnections[key] { storeConnectionStats(tx, conn); delete(...) }
Disconnect(st, key) ==
    [st EXCEPT !.tx = storeConnectionStats(@, st.active[key]),
               !.active = [k \in DOMAIN @ \ {key} |-> @[k]]]

\* for key, conn := range c.activeConnections: order is the order in which the
\* map iteration meets the ended connections
RECURSIVE CheckDisconnections(_, _, _)
CheckDisconnections(run, order, i) ==
    IF i > Len(order) THEN run
    ELSE CheckDisconnections(Append(run, Disconnect(run[Len(run)], order[i])),
                             order, i + 1)

\* the run of storeData up to the end of the pilot and controller loops
RecordsRun(data, tb) ==
    ProcessControllers(
        ProcessPilots(<<Begin, InsertSnapshot(Begin)>>, data.pilots, 1, tb),
        data.controllers, 1, tb)

\* the tracked connections whose key the snapshot does not hold
Ended(st) == DOMAIN st.active \ st.current

\* the whole run of storeData(data) when no step fails; its last state is the one
\* tx.Commit() is called in
storeData(data, tb, order) == CheckDisconnections(RecordsRun(data, tb), order, 1)

\* What storeData leaves behind when its failAt-th step fails (failAt = 0: none
\* fails, failAt = Len(run): the commit fails): the transaction is rolled back
\* (defer tx.Rollback()) or committed, and memory is as the last step left it.
Outcome(run, failAt) ==
    LET st == IF failAt = 0 THEN run[Len(run)] ELSE run[failAt]
    IN [err |-> failAt # 0,
        steps |-> IF failAt = 0 THEN Len(run) ELSE failAt - 1,
        tx |-> st.tx,
        active |-> st.active,
        current |-> st.current,
        opened |-> st.opened,
        reopened |-> st.reopened]

\* variant: the transaction's writes survive a failed cycle
CommittedAnyway(out) == out.tx

\* defer tx.Rollback() / tx.Commit(): the database after storeData has returned
Committed(out) == IF out.err THEN DB ELSE out.tx

\* the largest number of rows the existing-connection query can tie on
MaxTies(conns) ==
    LET same(i) == {j \in DOMAIN conns :
                      /\ conns[j].vatsim_id = conns[i].vatsim_id
                      /\ conns[j].callsign = conns[i].callsign
                      /\ conns[j].type = conns[i].type
                      /\ conns[j].start_time = conns[i].start_time}
        sizes == {Cardinality(same(i)) : i \in DOMAIN conns} \cup {1}
    IN CHOOSE n \in sizes : \A m \in sizes : m <= n

-----------------------------------------------------------------------------
(* FetchAndStore *)

\* variant: the update token is never compared
UnchangedIgnored(data) == FALSE

\* data.General.Update == c.lastUpdate
Unchanged(data) == data.update = lastUpdate

\* variant: ProcessedPilots is assigned the pilot count of the snapshot
UpdatedStatsAssigned(data) ==
    LET atis == {i \in DOMAIN data.controllers : Len(data.controllers[i].text_atis) > 0}
    IN [stats EXCEPT
          !.LastUpdate = now,
          !.TotalSnapshots = @ + 1,
          !.ActivePilots = Len(data.pilots),
          !.ActiveATIS = Cardinality(atis),
          !.ActiveATCs = Len(data.controllers) - Cardinality(atis),
          !.ProcessedPilots = Len(data.pilots)]

\* the collection statistics after a stored snapshot
UpdatedStats(data) ==
    LET atis == {i \in DOMAIN data.controllers : Len(data.controllers[i].text_atis) > 0}
    IN [stats EXCEPT
          !.LastUpdate = now,
          !.TotalSnapshots = @ + 1,
          !.ActivePilots = Len(data.pilots),
          !.ActiveATIS = Cardinality(atis),
          !.ActiveATCs = Len(data.controllers) - Cardinality(atis),
          !.ProcessedPilots = @ + Len(data.pilots)]

\* fetchData returned an error
FetchError ==
    /\ last' = Call("fetch_error", 0, 0, {}, {})
    /\ UNCHANGED <<now, lastUpdate, activeConnections, stats, DB>>

\* the snapshot carries the token of the last stored one
Skip(data) ==
    /\ Unchanged(data)
    /\ last' = Call("unchanged", data.update, 0, {}, {})
    /\ UNCHANGED <<now, lastUpdate, activeConnections, stats, DB>>

\* variant: the cursor is moved before storeData is called
StoreAfterCursor(data, out) ==
    /\ ~Unchanged(data)
    /\ Len(out.tx.connections) <= MaxRows
    /\ DB' = Committed(out)
    /\ activeConnections' = out.active
    /\ lastUpdate' = data.update
    /\ IF out.err
       THEN /\ last' = Call("store_error", data.update, out.steps, out.opened, out.reopened)
            /\ UNCHANGED stats
       ELSE /\ last' = Seen(Call("ok", data.update, out.steps, out.opened, out.reopened),
                             out.current)
            /\ stats' = UpdatedStats(data)
    /\ UNCHANGED now

\* storeData ran and returned out
Store(data, out) ==
    /\ ~Unchanged(data)
    /\ Len(out.tx.connections) <= MaxRows
    /\ DB' = Committed(out)
    /\ activeConnections' = out.active
    /\ IF out.err
       THEN /\ last' = Call("store_error", data.update, out.steps, out.opened, out.reopened)
            /\ UNCHANGED <<lastUpdate, stats>>
       ELSE /\ last' = Seen(Call("ok", data.update, out.steps, out.opened, out.reopened),
                             out.current)
            /\ lastUpdate' = data.update
            /\ stats' = UpdatedStats(data)
    /\ UNCHANGED now

\* FetchAndStore when fetchData can return any of the given snapshots
FetchAndStoreOf(snapshots, maxSnapshots) ==
    /\ last = NoCall
    /\ DB.snapshots < maxSnapshots
    /\ \/ FetchError
       \/ \E data \in snapshots : Skip(data)
       \/ \E data \in snapshots :
            \E tb \in 0..(MaxTies(DB.connections) - 1) :
              LET records == RecordsRun(data, tb)
              IN \E order \in Orders(Ended(records[Len(records)])) :
                   LET run == storeData(data, tb, order)
                   IN \E failAt \in 0..Len(run) : Store(data, Outcome(run, failAt))

FetchAndStore(feed, maxSnapshots) == FetchAndStoreOf(Snapshots(feed), maxSnapshots)

\* variant: an error of the cycle ends the process (log.Fatalf)
LogFatal ==
    /\ last # NoCall
    /\ last.result \notin {"fetch_error", "store_error"}
    /\ last' = NoCall
    /\ UNCHANGED <<now, lastUpdate, activeConnections, stats, DB>>

\* main: if err := c.FetchAndStore(); err != nil { log.Printf(...) }, then the
\* loop waits for the next tick
LogResult ==
    /\ last # NoCall
    /\ last' = NoCall
    /\ UNCHANGED <<now, lastUpdate, activeConnections, stats, DB>>

-----------------------------------------------------------------------------
(* The environment *)

\* wall-clock time passes between two collector calls
Tick ==
    /\ last = NoCall
    /\ \E d \in TickSteps : now + d <= MaxNow /\ now' = now + d
    /\ UNCHANGED <<lastUpdate, activeConnections, stats, DB, last>>

\* the process is restarted: main builds a new Collector, the database is kept
Restart ==
    /\ last = NoCall
    /\ activeConnections # EmptyMap \/ lastUpdate # 0
    /\ activeConnections' = EmptyMap
    /\ lastUpdate' = 0
    /\ stats' = [ZeroStats EXCEPT !.StartTime = now]
    /\ UNCHANGED <<now, DB, last>>

\* main before "for range ticker.C": no tick is buffered, no cycle is running
Waiting == [pc |-> "wait", ticks |-> 0, running |-> 0]

\* no HTTP request has been answered
NoReply == [handler |-> "none"]

\* the api_keys table without rows; next_id is the next value of its id sequence
NoKeys == [rows |-> {}, next_id |-> 1]

Init ==
    /\ now = 0
    /\ lastUpdate = 0
    /\ activeConnections = EmptyMap
    /\ stats = ZeroStats
    /\ DB = EmptyDB
    /\ last = NoCall
    /\ loop = Waiting
    /\ requests = EmptyMap
    /\ api_keys = NoKeys
    /\ env = [MASTER_API_KEY |-> "master"]
    /\ reply = NoReply
    /\ forwarded = EmptyMap

\* the collector fed with one pilot key
Next ==
    \/ FetchAndStore(PilotFeed, MaxSnapshots) /\ UNCHANGED <<loop, serverVars>>
    \/ LogResult /\ UNCHANGED <<loop, serverVars>>
    \/ Tick /\ UNCHANGED <<loop, serverVars>>
    \/ Restart /\ UNCHANGED <<loop, serverVars>>

Spec == Init /\ [][Next]_vars

\* the collector fed with a pilot and a controller
NextMixed ==
    \/ FetchAndStore(MixedFeed, MaxMixedSnapshots) /\ UNCHANGED <<loop, serverVars>>
    \/ LogResult /\ UNCHANGED <<loop, serverVars>>
    \/ Tick /\ UNCHANGED <<loop, serverVars>>
    \/ Restart /\ UNCHANGED <<loop, serverVars>>

SpecMixed == Init /\ [][NextMixed]_vars

-----------------------------------------------------------------------------
(* The collector fed with records that lack their identity or their callsign *)

\* no cycle is started once this many snapshots are stored
MaxMalformedSnapshots == 2

\* what json.Unmarshal leaves in Pilot.CID / Controller.CID when the record has
\* no "cid" member
NoCID == 0

\* what it leaves in Callsign when the record has no "callsign" member
NoCallsign == ""

\* a pilot record without identity, one without callsign, and a complete
\* controller record
MalformedFeed ==
    [pilots |-> {Pilot(NoCID, "AAL1", 4, -120, 0), Pilot(1, NoCallsign, 4, -120, 0)},
     controllers |-> {Controller(3, "EGLL_TWR", 2, <<>>, 0, 0)}]

NextMalformed ==
    \/ FetchAndStore(MalformedFeed, MaxMalformedSnapshots) /\ UNCHANGED <<loop, serverVars>>
    \/ LogResult /\ UNCHANGED <<loop, serverVars>>
    \/ Tick /\ UNCHANGED <<loop, serverVars>>
    \/ Restart /\ UNCHANGED <<loop, serverVars>>

SpecMalformed == Init /\ [][NextMalformed]_vars

-----------------------------------------------------------------------------
(* The collector fed with controller records of every shape of text_atis *)

\* no cycle is started once this many snapshots are stored
MaxClassifySnapshots == 1

\* one pilot and three positions, each always reported with the same text_atis:
\* none, one line of text, one empty line
ClassifyFeed ==
    [pilots |-> {Pilot(1, "AAL1", 4, -120, 0)},
     controllers |-> {Controller(3, "EGLL_TWR", 2, <<>>, 0, 0),
                      Controller(4, "EGLL_ATIS", 2, <<"INFO A">>, 0, 0),
                      Controller(5, "EGKK_ATIS", 2, <<"">>, 0, 0)}]

NextClassify ==
    \/ FetchAndStore(ClassifyFeed, MaxClassifySnapshots) /\ UNCHANGED <<loop, serverVars>>
    \/ LogResult /\ UNCHANGED <<loop, serverVars>>
    \/ Tick /\ UNCHANGED <<loop, serverVars>>

SpecClassify == Init /\ [][NextClassify]_vars

-----------------------------------------------------------------------------
(* The collector fed with a pilot whose rating changes between snapshots *)

\* no cycle is started once this many snapshots are stored
MaxReopenSnapshots == 3

\* one pilot key, reported with rating 4 or with rating 5
ReopenFeed ==
    [pilots |-> {Pilot(1, "AAL1", rating, -120, 0) : rating \in {4, 5}},
     controllers |-> {}]

NextReopen ==
    \/ FetchAndStore(ReopenFeed, MaxReopenSnapshots) /\ UNCHANGED <<loop, serverVars>>
    \/ LogResult /\ UNCHANGED <<loop, serverVars>>
    \/ Tick /\ UNCHANGED <<loop, serverVars>>

SpecReopen == Init /\ [][NextReopen]_vars

-----------------------------------------------------------------------------
(* The collector fed with a pilot whose logon time and rating both vary *)

\* no cycle is started once this many snapshots are stored
MaxTieSnapshots == 4

\* one pilot key, reported with an earlier or a later logon time and with rating
\* 4 or 5
TieFeed ==
    [pilots |-> {Pilot(1, "AAL1", rating, logon, 0) :
                    rating \in {4, 5}, logon \in {-120, -60}},
     controllers |-> {}]

NextTie ==
    \/ FetchAndStore(TieFeed, MaxTieSnapshots) /\ UNCHANGED <<loop, serverVars>>
    \/ LogResult /\ UNCHANGED <<loop, serverVars>>
    \/ Restart /\ UNCHANGED <<loop, serverVars>>

SpecTie == Init /\ [][NextTie]_vars

-----------------------------------------------------------------------------
(* The collector fed with pilots that share an identity or a callsign *)

\* no cycle is started once this many snapshots are stored
MaxPairSnapshots == 2

\* one identity flying under two callsigns, and a second identity using the
\* callsign of the first
PairFeed ==
    [pilots |-> {Pilot(1, "AAL1", 4, -120, 0), Pilot(1, "BAW2", 4, -60, 0),
                 Pilot(2, "AAL1", 4, -30, 0)},
     controllers |-> {}]

\* the snapshots of a feed with up to two pilot records, of different keys
PairSnapshots(feed) ==
    LET recs == {Stamp(r) : r \in feed.pilots}
    IN [update : Tokens,
        pilots : SeqUpTo1(recs) \cup
                    {p \in recs \X recs : Key(p[1].cid, p[1].callsign) #
                                              Key(p[2].cid, p[2].callsign)},
        controllers : {<<>>}]

NextPair ==
    \/ FetchAndStoreOf(PairSnapshots(PairFeed), MaxPairSnapshots)
          /\ UNCHANGED <<loop, serverVars>>
    \/ LogResult /\ UNCHANGED <<loop, serverVars>>
    \/ Tick /\ UNCHANGED <<loop, serverVars>>
    \/ Restart /\ UNCHANGED <<loop, serverVars>>

SpecPair == Init /\ [][NextPair]_vars

-----------------------------------------------------------------------------
(* main: the ticker and the collection loop, with a cycle that takes time       *)

\* no cycle is started once this many snapshots are stored
MaxLoopSnapshots == 2

\* main has built the collector and the ticker and is about to make the initial
\* collection
Starting == [pc |-> "start", ticks |-> 0, running |-> 0]

\* the ticker's period has elapsed: the tick is put into ticker.C, a channel with
\* room for one tick, and is dropped when the channel still holds one
TickerFires ==
    /\ loop' = [loop EXCEPT !.ticks = 1]
    /\ UNCHANGED <<now, collectorVars, serverVars>>

\* variant: every tick starts its cycle in a goroutine of its own
StartCycleInGoroutine ==
    /\ loop.pc = "start" \/ loop.ticks = 1
    /\ loop' = [pc |-> IF loop.pc = "start" THEN "wait" ELSE loop.pc,
                ticks |-> 0,
                running |-> loop.running + 1]
    /\ UNCHANGED <<now, collectorVars, serverVars>>

\* main calls c.FetchAndStore(): the initial collection, or the body of
\* "for range ticker.C" once a tick is received
StartCycle ==
    /\ \/ loop.pc = "start" /\ loop' = [loop EXCEPT !.pc = "cycle", !.running = @ + 1]
       \/ /\ loop.pc = "wait"
          /\ loop.ticks = 1
          /\ loop' = [pc |-> "cycle", ticks |-> 0, running |-> loop.running + 1]
    /\ UNCHANGED <<now, collectorVars, serverVars>>

\* the running FetchAndStore does its work and returns
FinishCycle ==
    /\ loop.pc = "cycle"
    /\ FetchAndStore(PilotFeed, MaxLoopSnapshots)
    /\ loop' = [loop EXCEPT !.pc = "log", !.running = @ - 1]
    /\ UNCHANGED serverVars

\* main logs the error, if any, and goes back to "for range ticker.C"
BackToTicker ==
    /\ loop.pc = "log"
    /\ LogResult
    /\ loop' = [loop EXCEPT !.pc = "wait"]
    /\ UNCHANGED serverVars

InitLoop ==
    /\ now = 0
    /\ lastUpdate = 0
    /\ activeConnections = EmptyMap
    /\ stats = ZeroStats
    /\ DB = EmptyDB
    /\ last = NoCall
    /\ loop = Starting
    /\ requests = EmptyMap
    /\ api_keys = NoKeys
    /\ env = [MASTER_API_KEY |-> "master"]
    /\ reply = NoReply
    /\ forwarded = EmptyMap

NextLoop ==
    \/ TickerFires
    \/ StartCycle
    \/ FinishCycle
    \/ BackToTicker
    \/ Tick /\ UNCHANGED <<loop, serverVars>>

SpecLoop == InitLoop /\ [][NextLoop]_vars

-----------------------------------------------------------------------------
(* FetchAndStore write by write: the assignments to c.stats after the store,    *)
(* and GetStats called from a request-serving goroutine in between.             *)

\* no cycle is started once this many snapshots are stored
MaxStatsSnapshots == 2

\* one pilot and one tower position without ATIS text
StatsFeed ==
    [pilots |-> {Pilot(1, "AAL1", 4, -120, 0)},
     controllers |-> {Controller(3, "EGLL_TWR", 2, <<>>, 0, 0)}]

\* the number of assignments to c.stats fields FetchAndStore makes for data
StatsWrites(data) == 6 + Len(data.controllers)

\* c.stats after the step-th of these assignments is applied to s
StatsWrite(s, data, step) ==
    CASE step = 1 -> [s EXCEPT !.LastUpdate = now]
      [] step = 2 -> [s EXCEPT !.TotalSnapshots = @ + 1]
      [] step = 3 -> [s EXCEPT !.ActivePilots = Len(data.pilots)]
      [] step = 4 -> [s EXCEPT !.ActiveATCs = 0]
      [] step = 5 -> [s EXCEPT !.ActiveATIS = 0]
      [] step \in 6..(5 + Len(data.controllers)) ->
            IF ControllerType(data.controllers[step - 5]) = TypeATIS
            THEN [s EXCEPT !.ActiveATIS = @ + 1]
            ELSE [s EXCEPT !.ActiveATCs = @ + 1]
      [] OTHER -> [s EXCEPT !.ProcessedPilots = @ + Len(data.pilots)]

\* the values c.stats takes from s, before assignment step, to the end of the
\* assignments
RECURSIVE StatsStates(_, _, _)
StatsStates(s, data, step) ==
    IF step > StatsWrites(data) THEN {s}
    ELSE {s} \cup StatsStates(StatsWrite(s, data, step), data, step + 1)

\* c.stats when the assignments from step on are done
RECURSIVE StatsAfter(_, _, _)
StatsAfter(s, data, step) ==
    IF step > StatsWrites(data) THEN s
    ELSE StatsAfter(StatsWrite(s, data, step), data, step + 1)

\* FetchAndStore up to a committed storeData and the assignment of c.lastUpdate;
\* the assignments to c.stats are still to come
CommitCycle(data, out) ==
    /\ ~Unchanged(data)
    /\ ~out.err
    /\ Len(out.tx.connections) <= MaxRows
    /\ DB' = Committed(out)
    /\ activeConnections' = out.active
    /\ lastUpdate' = data.update
    /\ loop' = [pc |-> "stats", ticks |-> 0, running |-> 1,
                data |-> data, step |-> 1, before |-> stats,
                after |-> UpdatedStats(data),
                call |-> Call("ok", data.update, out.steps, out.opened, out.reopened)]
    /\ UNCHANGED <<now, stats, last>>

\* FetchAndStore as far as it runs without touching c.stats
StartFetchAndStore ==
    /\ last = NoCall
    /\ loop.pc = "wait"
    /\ reply = NoReply
    /\ DB.snapshots < MaxStatsSnapshots
    /\ \/ FetchError /\ UNCHANGED loop
       \/ \E data \in Snapshots(StatsFeed) : Skip(data) /\ UNCHANGED loop
       \/ \E data \in Snapshots(StatsFeed) :
            \E tb \in 0..(MaxTies(DB.connections) - 1) :
              LET records == RecordsRun(data, tb)
              IN \E order \in Orders(Ended(records[Len(records)])) :
                   LET run == storeData(data, tb, order)
                   IN \/ \E failAt \in 1..Len(run) :
                           Store(data, Outcome(run, failAt)) /\ UNCHANGED loop
                      \/ CommitCycle(data, Outcome(run, 0))
    /\ UNCHANGED serverVars

\* the next assignment to a field of c.stats
WriteStats ==
    /\ loop.pc = "stats"
    /\ reply = NoReply
    /\ loop.step <= StatsWrites(loop.data)
    /\ stats' = StatsWrite(stats, loop.data, loop.step)
    /\ loop' = [loop EXCEPT !.step = @ + 1]
    /\ UNCHANGED <<now, lastUpdate, activeConnections, DB, last, serverVars>>

\* return nil
ReturnFromCycle ==
    /\ loop.pc = "stats"
    /\ reply = NoReply
    /\ loop.step > StatsWrites(loop.data)
    /\ last' = loop.call
    /\ loop' = Waiting
    /\ UNCHANGED <<now, lastUpdate, activeConnections, stats, DB, serverVars>>

\* What "return c.stats" can copy.  GetStats takes no lock and FetchAndStore
\* holds none, so a copy made while the assignments are under way is a data race:
\* each field of the copy is a value the field has at some point from the start
\* of the copy on.
Readable ==
    IF loop.pc = "stats"
    THEN LET states == StatsStates(stats, loop.data, loop.step)
             seen(f) == {x[f] : x \in states}
         IN [LastUpdate : seen("LastUpdate"),
             TotalSnapshots : seen("TotalSnapshots"),
             ActivePilots : seen("ActivePilots"),
             ActiveATCs : seen("ActiveATCs"),
             ActiveATIS : seen("ActiveATIS"),
             ProcessedPilots : seen("ProcessedPilots"),
             StartTime : seen("StartTime")]
    ELSE {stats}

\* GetCollectorStats: json.NewEncoder(w).Encode(collector.GetStats())
GetStats ==
    /\ reply = NoReply
    /\ \E body \in Readable :
          reply' = [handler |-> "GetCollectorStats", status |-> 200, body |-> body]
    /\ UNCHANGED <<now, collectorVars, loop, requests, api_keys, env, forwarded>>

\* the response has been written
Respond ==
    /\ reply # NoReply
    /\ reply' = NoReply
    /\ UNCHANGED <<now, collectorVars, loop, requests, api_keys, env, forwarded>>

NextStats ==
    \/ StartFetchAndStore
    \/ WriteStats
    \/ ReturnFromCycle
    \/ LogResult /\ reply = NoReply /\ UNCHANGED <<loop, serverVars>>
    \/ Tick /\ loop.pc = "wait" /\ reply = NoReply /\ UNCHANGED <<loop, serverVars>>
    \/ GetStats
    \/ Respond

SpecStats == Init /\ [][NextStats]_vars

-----------------------------------------------------------------------------
(* The rate limiter *)

\* maxRequests = 100: maximum requests per window
maxRequests == 100

\* windowDuration = time.Minute * 5
windowDuration == 5

\* an HTTP request as RateLimit reads it: the peer's IP and port (r.RemoteAddr is
\* "IP:port") and the Authorization header ("" when there is none)
HttpRequest(ip, port, header) == [ip |-> ip, port |-> port, header |-> header]

\* clientIP := r.RemoteAddr
RemoteAddr(r) == <<r.ip, r.port>>

\* variant: the lookup does not ask for is_active = true
ValidateAnyAPIKey(key, dbOk) == dbOk /\ \E row \in api_keys.rows : row.key = key

\* UPDATE api_keys SET last_used_at = NOW() WHERE key = $1 AND is_active = true
\* RETURNING true; err == nil && exists.  dbOk: the statement ran without error.
ValidateAPIKey(key, dbOk) ==
    dbOk /\ \E row \in api_keys.rows : row.key = key /\ row.is_active

\* the table after that statement
KeyUsed(key, dbOk) ==
    IF dbOk
    THEN [api_keys EXCEPT !.rows =
            {IF row.key = key /\ row.is_active
             THEN [row EXCEPT !.last_used_at = now] ELSE row : row \in @}]
    ELSE api_keys

\* "Clean up old entries": delete every entry not seen for more than the window
CleanedUp(reqs) ==
    [a \in {b \in DOMAIN reqs : now - reqs[b].lastSeen <= windowDuration} |-> reqs[a]]

\* "Get or create client requests"
ClientOf(reqs, addr) ==
    IF addr \in DOMAIN reqs THEN reqs[addr] ELSE [count |-> 0, lastSeen |-> now]

\* "Check if window has expired"
WindowChecked(client) ==
    IF now - client.lastSeen > windowDuration
    THEN [count |-> 0, lastSeen |-> now]
    ELSE client

\* "Check rate limit"
Limited(client) == client.count >= maxRequests

\* the answer to a request: when it was given, the status written (200 stands for
\* whatever the next handler answers) and whether the request was passed on to
\* the next handler
Answer(handler, r, status, next) ==
    [handler |-> handler, at |-> now, status |-> status, next |-> next] @@ r

\* the answer of RateLimit, with how the key lookup of the request went: "none"
\* (no Authorization header, no lookup), "ok" or "error"
Looked(answer, r, dbOk) ==
    ("lookup" :> IF r.header = "" THEN "none" ELSE IF dbOk THEN "ok" ELSE "error")
        @@ answer

\* the history of forwarded requests with one more now for ip
Forwarded(ip) ==
    LET old == IF ip \in DOMAIN forwarded THEN forwarded[ip] ELSE EmptyMap
        n == IF now \in DOMAIN old THEN old[now] ELSE 0
    IN (ip :> ((now :> n + 1) @@ old)) @@ forwarded

\* t.Unix(): the whole seconds of a time counted in minutes
SecondsPerMinute == 60
Unix(t) == t * SecondsPerMinute

\* variant: the reset is counted from the time of the request
ResetFromNow(client) == Unix(now + windowDuration)

\* X-RateLimit-Reset: time.Unix(client.lastSeen.Add(windowDuration).Unix(), 0),
\* as whole seconds
RateLimitReset(client) == Unix(client.lastSeen + windowDuration)

\* the answer with its X-RateLimit-Reset header; the answer to a request with a
\* valid API key has none
WithReset(answer, value) == ("reset" :> value) @@ answer

\* the RateLimit middleware serving request r
RateLimit(r, dbOk) ==
    IF r.header # "" /\ ValidateAPIKey(r.header, dbOk)
    THEN /\ api_keys' = KeyUsed(r.header, dbOk)
         /\ reply' = Looked(Answer("RateLimit", r, 200, TRUE), r, dbOk)
         /\ UNCHANGED <<requests, forwarded>>
    ELSE LET reqs == CleanedUp(requests)
             client == WindowChecked(ClientOf(reqs, RemoteAddr(r)))
             admitted == [count |-> client.count + 1, lastSeen |-> now]
         IN /\ api_keys' = IF r.header # "" THEN KeyUsed(r.header, dbOk) ELSE api_keys
            /\ IF Limited(client)
               THEN /\ requests' = (RemoteAddr(r) :> client) @@ reqs
                    /\ reply' = WithReset(Looked(Answer("RateLimit", r, 429, FALSE), r, dbOk),
                                          RateLimitReset(client))
                    /\ UNCHANGED forwarded
               ELSE /\ requests' = (RemoteAddr(r) :> admitted) @@ reqs
                    /\ reply' = WithReset(Looked(Answer("RateLimit", r, 200, TRUE), r, dbOk),
                                          RateLimitReset(admitted))
                    /\ forwarded' = Forwarded(r.ip)

\* the wall clock stops advancing here
MaxLimitNow == 10

\* time passes between two requests: up to the window, or just beyond it; the
\* history drops what is older than the window
LimitTick ==
    /\ \E d \in {windowDuration, windowDuration + 1} :
          /\ now + d <= MaxLimitNow
          /\ now' = now + d
    /\ forwarded' = [ip \in DOMAIN forwarded |->
                       [t \in {u \in DOMAIN forwarded[ip] : u >= now' - windowDuration}
                          |-> forwarded[ip][t]]]
    /\ UNCHANGED <<collectorVars, loop, requests, api_keys, env, reply>>

\* one client, one connection, requests without key or with an unknown key
LimitRequests == {HttpRequest("10.0.0.1", 4000, h) : h \in {"", "unknown"}}

NextLimit ==
    \/ \E r \in LimitRequests :
          RateLimit(r, TRUE) /\ UNCHANGED <<now, collectorVars, loop, env>>
    \/ LimitTick

SpecLimit == Init /\ [][NextLimit]_vars

\* one client sending over two connections, hence from two ports
PortRequests == {HttpRequest("10.0.0.1", port, "") : port \in {4000, 4001}}

NextPorts ==
    \E r \in PortRequests :
        RateLimit(r, TRUE) /\ UNCHANGED <<now, collectorVars, loop, env>>

SpecPorts == Init /\ [][NextPorts]_vars

-----------------------------------------------------------------------------
(* RateLimit statement by statement, served by several goroutines at once *)

\* the goroutines net/http serves requests in
MaxGoroutines == 2
Goroutines == 1..MaxGoroutines

\* the request every goroutine serves: one client address, no API key
ConcRequest == HttpRequest("10.0.0.1", 4000, "")

\* the server before any request: mu is the goroutine holding limiter.mu (0:
\* none); g gives each goroutine's position (idle: it serves no request), the
\* count it read at "Check rate limit" (seen) and the count read by
\* client.count++ (tmp); observed counts, per value of the count, the requests
\* that passed the check having read it
Serving ==
    [pc |-> "wait", ticks |-> 0, running |-> 0,
     mu |-> 0, g |-> [i \in Goroutines |-> [pc |-> "idle", seen |-> 0, tmp |-> 0]],
     observed |-> EmptyMap]

\* variant: Lock returns whoever holds the mutex
LockNotExclusive == TRUE

\* limiter.mu.Lock() returns only when no goroutine holds the mutex
LockFree == loop.mu = 0

\* goroutine i moves to pc
Goto(i, pc) == [loop EXCEPT !.g[i].pc = pc]

\* a request arrives; it has no Authorization header, so RateLimit goes on to
\* limiter.mu.Lock()
Receive(i) ==
    /\ loop.g[i].pc = "idle"
    /\ loop' = Goto(i, "lock")
    /\ UNCHANGED <<requests, reply, forwarded>>

\* limiter.mu.Lock()
Lock(i) ==
    /\ loop.g[i].pc = "lock"
    /\ LockFree
    /\ loop' = [Goto(i, "enter") EXCEPT !.mu = i]
    /\ UNCHANGED <<requests, reply, forwarded>>

\* the clean-up loop, "Get or create client requests", "Check if window has
\* expired"
Enter(i) ==
    /\ loop.g[i].pc = "enter"
    /\ LET reqs == CleanedUp(requests)
           client == WindowChecked(ClientOf(reqs, RemoteAddr(ConcRequest)))
       IN requests' = (RemoteAddr(ConcRequest) :> client) @@ reqs
    /\ loop' = Goto(i, "check")
    /\ UNCHANGED <<reply, forwarded>>

\* if client.count >= maxRequests
Check(i) ==
    /\ loop.g[i].pc = "check"
    /\ LET client == requests[RemoteAddr(ConcRequest)]
           n == IF client.count \in DOMAIN loop.observed
                THEN loop.observed[client.count] ELSE 0
       IN loop' = IF Limited(client)
                  THEN [Goto(i, "reject") EXCEPT !.g[i].seen = client.count]
                  ELSE [Goto(i, "load") EXCEPT
                           !.g[i].seen = client.count,
                           !.observed = (client.count :> n + 1) @@ @]
    /\ UNCHANGED <<requests, reply, forwarded>>

\* the headers and http.Error(w, ..., 429)
Reject(i) ==
    /\ loop.g[i].pc = "reject"
    /\ reply' = WithReset(Looked(Answer("RateLimit", ConcRequest, 429, FALSE),
                                 ConcRequest, TRUE),
                          RateLimitReset(requests[RemoteAddr(ConcRequest)]))
    /\ loop' = Goto(i, "unlock")
    /\ UNCHANGED <<requests, forwarded>>

\* client.count++, the read
Load(i) ==
    /\ loop.g[i].pc = "load"
    /\ loop' = [Goto(i, "store") EXCEPT
                   !.g[i].tmp = requests[RemoteAddr(ConcRequest)].count]
    /\ UNCHANGED <<requests, reply, forwarded>>

\* client.count++, the write, and client.lastSeen = now
StoreCount(i) ==
    /\ loop.g[i].pc = "store"
    /\ requests' = [requests EXCEPT ![RemoteAddr(ConcRequest)] =
                       [count |-> loop.g[i].tmp + 1, lastSeen |-> now]]
    /\ loop' = Goto(i, "forward")
    /\ UNCHANGED <<reply, forwarded>>

\* the headers and next.ServeHTTP(w, r)
Forward(i) ==
    /\ loop.g[i].pc = "forward"
    /\ reply' = WithReset(Looked(Answer("RateLimit", ConcRequest, 200, TRUE),
                                 ConcRequest, TRUE),
                          RateLimitReset(requests[RemoteAddr(ConcRequest)]))
    /\ forwarded' = Forwarded(ConcRequest.ip)
    /\ loop' = Goto(i, "unlock")
    /\ UNCHANGED requests

\* defer limiter.mu.Unlock()
Unlock(i) ==
    /\ loop.g[i].pc = "unlock"
    /\ loop' = [loop EXCEPT !.mu = 0, !.g[i] = Serving.g[i]]
    /\ UNCHANGED <<requests, reply, forwarded>>

InitConcurrent ==
    /\ now = 0
    /\ lastUpdate = 0
    /\ activeConnections = EmptyMap
    /\ stats = ZeroStats
    /\ DB = EmptyDB
    /\ last = NoCall
    /\ loop = Serving
    /\ requests = EmptyMap
    /\ api_keys = NoKeys
    /\ env = [MASTER_API_KEY |-> "master"]
    /\ reply = NoReply
    /\ forwarded = EmptyMap

NextConcurrent ==
    \/ \E i \in Goroutines : Receive(i) /\ UNCHANGED <<now, collectorVars, api_keys, env>>
    \/ \E i \in Goroutines : Lock(i) /\ UNCHANGED <<now, collectorVars, api_keys, env>>
    \/ \E i \in Goroutines : Enter(i) /\ UNCHANGED <<now, collectorVars, api_keys, env>>
    \/ \E i \in Goroutines : Check(i) /\ UNCHANGED <<now, collectorVars, api_keys, env>>
    \/ \E i \in Goroutines : Reject(i) /\ UNCHANGED <<now, collectorVars, api_keys, env>>
    \/ \E i \in Goroutines : Load(i) /\ UNCHANGED <<now, collectorVars, api_keys, env>>
    \/ \E i \in Goroutines : StoreCount(i) /\ UNCHANGED <<now, collectorVars, api_keys, env>>
    \/ \E i \in Goroutines : Forward(i) /\ UNCHANGED <<now, collectorVars, api_keys, env>>
    \/ \E i \in Goroutines : Unlock(i) /\ UNCHANGED <<now, collectorVars, api_keys, env>>

SpecConcurrent == InitConcurrent /\ [][NextConcurrent]_vars

-----------------------------------------------------------------------------
(* API key management *)

\* no key is created once the id sequence of api_keys has passed this value
MaxKeyId == 2

\* the keys generateAPIKey may return
Keys == {"key1", "key2"}

\* variant: any non-empty Authorization header passes as the master key
validateNonEmptyKey(key) == key # ""

\* return key == os.Getenv("MASTER_API_KEY")
validateMasterKey(key) == key = env.MASTER_API_KEY

\* the answer of a management handler: the status and the key data in the body
KeyAnswer(handler, r, status, body) ==
    [handler |-> handler, at |-> now, status |-> status, body |-> body] @@ r

\* a response body without key data
NoBody == {}

\* CreateAPIKey.  fault: what goes wrong, if anything: the body does not decode
\* ("body"), generateAPIKey fails ("generate"), the INSERT fails ("insert").  The
\* INSERT also fails when the key exists (key is UNIQUE); the id sequence has
\* advanced by then.
CreateAPIKey(r, key, fault) ==
    /\ api_keys.next_id <= MaxKeyId
    /\ IF ~validateMasterKey(r.header)
       THEN /\ reply' = KeyAnswer("CreateAPIKey", r, 401, NoBody)
            /\ UNCHANGED api_keys
       ELSE IF fault = "body"
       THEN /\ reply' = KeyAnswer("CreateAPIKey", r, 400, NoBody)
            /\ UNCHANGED api_keys
       ELSE IF fault \in {"generate", "insert"}
       THEN /\ reply' = KeyAnswer("CreateAPIKey", r, 500, NoBody)
            /\ UNCHANGED api_keys
       ELSE IF \E row \in api_keys.rows : row.key = key
       THEN /\ reply' = KeyAnswer("CreateAPIKey", r, 500, NoBody)
            /\ api_keys' = [api_keys EXCEPT !.next_id = @ + 1]
       ELSE LET row == [id |-> api_keys.next_id, key |-> key, is_active |-> TRUE,
                        last_used_at |-> "NULL"]
            IN /\ reply' = KeyAnswer("CreateAPIKey", r, 200, {row})
               /\ api_keys' = [rows |-> api_keys.rows \cup {row},
                               next_id |-> api_keys.next_id + 1]

\* DeleteAPIKey of the key with the given id.  fault: "body" or "delete".
DeleteAPIKey(r, id, fault) ==
    IF ~validateMasterKey(r.header)
    THEN /\ reply' = KeyAnswer("DeleteAPIKey", r, 401, NoBody)
         /\ UNCHANGED api_keys
    ELSE IF fault = "body"
    THEN /\ reply' = KeyAnswer("DeleteAPIKey", r, 400, NoBody)
         /\ UNCHANGED api_keys
    ELSE IF fault = "delete"
    THEN /\ reply' = KeyAnswer("DeleteAPIKey", r, 500, NoBody)
         /\ UNCHANGED api_keys
    ELSE IF \A row \in api_keys.rows : row.id # id
    THEN /\ reply' = KeyAnswer("DeleteAPIKey", r, 404, NoBody)
         /\ UNCHANGED api_keys
    ELSE /\ reply' = KeyAnswer("DeleteAPIKey", r, 204, NoBody)
         /\ api_keys' = [api_keys EXCEPT !.rows = {row \in @ : row.id # id}]

\* ListAPIKeys.  fault: "query" when the SELECT fails.
ListAPIKeys(r, fault) ==
    /\ IF ~validateMasterKey(r.header)
       THEN reply' = KeyAnswer("ListAPIKeys", r, 401, NoBody)
       ELSE IF fault = "query"
       THEN reply' = KeyAnswer("ListAPIKeys", r, 500, NoBody)
       ELSE reply' = KeyAnswer("ListAPIKeys", r, 200, api_keys.rows)
    /\ UNCHANGED api_keys

\* an operator switches a key off in the table (is_active = false); no handler
\* does
DeactivateKey(id) ==
    /\ \E row \in api_keys.rows : row.id = id /\ row.is_active
    /\ api_keys' = [api_keys EXCEPT !.rows =
                      {IF row.id = id THEN [row EXCEPT !.is_active = FALSE] ELSE row :
                          row \in @}]
    /\ UNCHANGED reply

\* one client; no Authorization header, the master key, one of the API keys, or
\* some other value
KeyRequests ==
    {HttpRequest("10.0.0.1", 4000, h) : h \in {"", "master", "wrong"} \cup Keys}

\* the service is started with MASTER_API_KEY set, or without it
InitKeys ==
    /\ now = 0
    /\ lastUpdate = 0
    /\ activeConnections = EmptyMap
    /\ stats = ZeroStats
    /\ DB = EmptyDB
    /\ last = NoCall
    /\ loop = Waiting
    /\ requests = EmptyMap
    /\ api_keys = NoKeys
    /\ env \in {[MASTER_API_KEY |-> m] : m \in {"master", ""}}
    /\ reply = NoReply
    /\ forwarded = EmptyMap

NextKeys ==
    \/ /\ reply = NoReply
       /\ \E r \in KeyRequests :
             \/ \E dbOk \in BOOLEAN : RateLimit(r, dbOk)
             \/ /\ \/ \E key \in Keys, fault \in {"none", "body", "generate", "insert"} :
                         CreateAPIKey(r, key, fault)
                   \/ \E id \in 1..MaxKeyId, fault \in {"none", "body", "delete"} :
                         DeleteAPIKey(r, id, fault)
                   \/ \E fault \in {"none", "query"} : ListAPIKeys(r, fault)
                /\ UNCHANGED <<requests, forwarded>>
       /\ UNCHANGED <<now, collectorVars, loop, env>>
    \/ /\ reply = NoReply
       /\ \E id \in 1..MaxKeyId : DeactivateKey(id)
       /\ UNCHANGED <<now, collectorVars, loop, env, requests, forwarded>>
    \/ Respond

SpecKeys == InitKeys /\ [][NextKeys]_vars

-----------------------------------------------------------------------------
(* NewRouter: the routes, and the requests served through them *)

\* a literal segment and a variable segment of a route's path template
Lit(s) == [var |-> FALSE, s |-> s]
PathVar(name) == [var |-> TRUE, s |-> name]

\* variant: the middleware is put on the router itself (r.Use), so that every
\* route is limited
RouteLimited(method, template, handler, limited) ==
    [method |-> method, template |-> template, handler |-> handler, limited |-> TRUE]

\* a route: limited is TRUE for the routes of the subrouter that uses RateLimit
Route(method, template, handler, limited) ==
    [method |-> method, template |-> template, handler |-> handler, limited |-> limited]

\* r.HandleFunc / api.HandleFunc in the order of registration; the templates of
\* the subrouter are given with its prefix /api
Routes ==
    <<Route("POST", <<Lit("api"), Lit("keys")>>, "CreateAPIKey", FALSE),
      Route("GET", <<Lit("api"), Lit("keys")>>, "ListAPIKeys", FALSE),
      Route("DELETE", <<Lit("api"), Lit("keys")>>, "DeleteAPIKey", FALSE),
      Route("GET", <<Lit("api"), Lit("membership"), PathVar("cid"), Lit("pilot")>>,
            "GetMembershipHandler", TRUE),
      Route("GET", <<Lit("api"), Lit("membership"), PathVar("cid"), Lit("debug")>>,
            "GetPilotDebug", TRUE),
      Route("GET", <<Lit("api"), Lit("collector"), Lit("stats")>>,
            "GetCollectorStats", TRUE),
      Route("GET", <<Lit("api"), Lit("airports"), PathVar("icao"), Lit("traffic")>>,
            "GetAirportTraffic", TRUE),
      Route("GET", <<Lit("api"), Lit("flights"), Lit("search")>>, "SearchFlights", TRUE),
      Route("GET", <<Lit("api"), Lit("network"), Lit("stats")>>,
            "GetNetworkStatisticsHandler", TRUE),
      Route("GET", <<Lit("api"), Lit("facilities"), PathVar("facility"), Lit("stats")>>,
            "GetFacilityStats", TRUE),
      Route("GET", <<Lit("api"), Lit("routes"), Lit("popular")>>, "GetPopularRoutes", TRUE),
      Route("GET", <<Lit("api"), Lit("routes"), PathVar("origin"), PathVar("destination"),
                     Lit("stats")>>, "GetRouteStats", TRUE),
      Route("GET", <<Lit("api"), Lit("analytics"), Lit("network-stats")>>,
            "GetNetworkStatistics", TRUE),
      Route("GET", <<Lit("api"), Lit("analytics"), Lit("trends")>>,
            "GetNetworkTrends", TRUE)>>

\* a request with its method and its path, the path as the sequence of its
\* segments
Routed(r, method, path) == [method |-> method, path |-> path] @@ r

\* the path matches the template
PathMatches(path, template) ==
    /\ Len(path) = Len(template)
    /\ \A i \in DOMAIN template : template[i].var \/ template[i].s = path[i]

\* mux.Vars(r) for a request matched by a route with this template
Vars(path, template) ==
    [name \in {template[i].s : i \in {j \in DOMAIN template : template[j].var}} |->
        path[CHOOSE i \in DOMAIN template : template[i].var /\ template[i].s = name]]

\* mux.Vars(r)[name]: the zero value "" when the map has no such key
VarOf(muxVars, name) == IF name \in DOMAIN muxVars THEN muxVars[name] ELSE ""

\* Router.Match: the first route whose template and method match (0: none)
Match(r) ==
    LET hits == {i \in DOMAIN Routes : /\ PathMatches(r.path, Routes[i].template)
                                       /\ Routes[i].method = r.method}
    IN IF hits = {} THEN 0 ELSE CHOOSE i \in hits : \A j \in hits : i <= j

\* a route has the path but none has the method: 405 instead of 404
MethodMismatch(r) ==
    /\ Match(r) = 0
    /\ \E i \in DOMAIN Routes : PathMatches(r.path, Routes[i].template)

\* fmt.Sprintf("%d", cid) for the identities of the model
Itoa(n) ==
    CASE n = 0 -> "0" [] n = 1 -> "1" [] n = 2 -> "2" [] n = 3 -> "3" [] n = 4 -> "4"
      [] n = 5 -> "5" [] n = 6 -> "6" [] n = 7 -> "7" [] n = 8 -> "8" [] n = 9 -> "9"
      [] OTHER -> "?"

\* strings.ToLower for the type names of the model
ToLower(str) ==
    CASE str = "PILOT" -> "pilot" [] str = "ATC" -> "atc" [] str = "ATIS" -> "atis"
      [] OTHER -> str

\* the ids of a set of connection rows ORDER BY start_time DESC (rows of equal
\* start time by id)
RECURSIVE ByStartDesc(_)
ByStartDesc(ids) ==
    IF ids = {} THEN <<>>
    ELSE LET first == CHOOSE i \in ids :
                        \A j \in ids :
                           \/ DB.connections[j].start_time < DB.connections[i].start_time
                           \/ /\ DB.connections[j].start_time = DB.connections[i].start_time
                              /\ i <= j
         IN <<first>> \o ByStartDesc(ids \ {first})

\* SELECT ... FROM connections c WHERE c.vatsim_id = $1 AND c.type = $2
MembershipRows(cid, typeID) ==
    {i \in DOMAIN DB.connections : /\ Itoa(DB.connections[i].vatsim_id) = cid
                                   /\ DB.connections[i].type = typeID}

\* getATCStats / getATISStats / getPilotStats of a connection row: QueryRow.Scan
\* gives sql.ErrNoRows when the statistics table has no row of the connection;
\* getPilotStats reads the connection itself and returns zeros without totals
StatsErr(connID, typeID) ==
    CASE typeID = TypeATC ->
            IF \E x \in DB.atc_stats : x.connection_id = connID THEN "nil" ELSE "ErrNoRows"
      [] typeID = TypeATIS ->
            IF \E x \in DB.atis_stats : x.connection_id = connID THEN "nil" ELSE "ErrNoRows"
      [] OTHER -> "nil"

\* getMembershipData(cid, typeID): the items, one per connection row, and the
\* error.  dbOk: the queries ran without a database error.
getMembershipData(cid, typeID, dbOk) ==
    LET ids == ByStartDesc(MembershipRows(cid, typeID))
    IN IF ~dbOk THEN [items |-> <<>>, err |-> "error"]
       ELSE IF \E k \in DOMAIN ids : StatsErr(ids[k], typeID) # "nil"
       THEN [items |-> <<>>, err |-> "ErrNoRows"]
       ELSE [items |-> [k \in DOMAIN ids |->
                          [id |-> ids[k],
                           start_time |-> DB.connections[ids[k]].start_time,
                           end_time |-> DB.connections[ids[k]].end_time,
                           rating |-> DB.connections[ids[k]].rating]],
             err |-> "nil"]

\* no connection type: the request was answered before a type was chosen
NoType == 0

\* the answer of GetMembershipHandler: the connection type it queried and the
\* items it returned
MembershipAnswer(r, status, typeID, items) ==
    [handler |-> "GetMembershipHandler", at |-> now, status |-> status, next |-> FALSE,
     typeID |-> typeID, items |-> items] @@ r

\* GetMembershipHandler(w, r) with muxVars = mux.Vars(r)
GetMembershipHandler(r, muxVars, dbOk) ==
    LET cid == VarOf(muxVars, "cid")
        connectionType == ToLower(VarOf(muxVars, "type"))
        typeID == CASE connectionType = "atc" -> TypeATC
                    [] connectionType = "atis" -> TypeATIS
                    [] connectionType = "pilot" -> TypePilot
                    [] OTHER -> NoType
        data == getMembershipData(cid, typeID, dbOk)
    IN IF typeID = NoType
       THEN reply' = MembershipAnswer(r, 400, NoType, <<>>)
       ELSE IF data.err = "ErrNoRows"
       THEN reply' = MembershipAnswer(r, 404, typeID, <<>>)
       ELSE IF data.err # "nil"
       THEN reply' = MembershipAnswer(r, 500, typeID, <<>>)
       ELSE reply' = MembershipAnswer(r, 200, typeID, data.items)

\* the router serves a request: no route (404 or 405 from the router itself), a
\* key-management route (the handler is called at once), or a route of the
\* subrouter (RateLimit is called with the route's handler as next)
ServeHTTP(r, dbOk) ==
    /\ reply = NoReply
    /\ LET i == Match(r)
       IN IF i = 0
          THEN /\ reply' = IF MethodMismatch(r)
                           THEN Answer("MethodNotAllowed", r, 405, FALSE)
                           ELSE Answer("NotFound", r, 404, FALSE)
               /\ UNCHANGED <<requests, api_keys, forwarded>>
          ELSE IF Routes[i].limited
          THEN RateLimit(r, dbOk)
          ELSE /\ CASE Routes[i].handler = "CreateAPIKey" ->
                          \E key \in Keys, fault \in {"none", "body", "generate", "insert"} :
                             CreateAPIKey(r, key, fault)
                    [] Routes[i].handler = "DeleteAPIKey" ->
                          \E id \in 1..MaxKeyId, fault \in {"none", "body", "delete"} :
                             DeleteAPIKey(r, id, fault)
                    [] OTHER ->
                          \E fault \in {"none", "query"} : ListAPIKeys(r, fault)
               /\ UNCHANGED <<requests, forwarded>>
    /\ UNCHANGED <<now, collectorVars, loop, env>>

\* RateLimit has called next.ServeHTTP(w, r): the handler of the matched route
\* answers.  Handlers other than GetMembershipHandler are not looked into: they
\* answer something.
NextServeHTTP(dbOk) ==
    /\ reply # NoReply
    /\ reply.handler = "RateLimit"
    /\ reply.next
    /\ LET r == [x \in {"ip", "port", "header", "method", "path"} |-> reply[x]]
           route == Routes[Match(r)]
       IN IF route.handler = "GetMembershipHandler"
          THEN GetMembershipHandler(r, Vars(r.path, route.template), dbOk)
          ELSE reply' = Answer(route.handler, r, 200, FALSE)
    /\ UNCHANGED <<now, collectorVars, loop, requests, api_keys, env, forwarded>>

\* one client asking for every kind of route with every method, with and
\* without the master key
RouterRequests ==
    {Routed(HttpRequest("10.0.0.1", 4000, h), m, path) :
        h \in {"", "master"},
        m \in {"GET", "POST", "DELETE"},
        path \in {<<"api", "keys">>,
                  <<"api", "collector", "stats">>,
                  <<"api", "nothing">>}
                 \cup {<<"api", "membership", "1", t>> :
                          t \in {"pilot", "atc", "atis", "debug", "other"}}}

NextRouter ==
    \/ \E r \in RouterRequests, dbOk \in BOOLEAN : ServeHTTP(r, dbOk)
    \/ \E dbOk \in BOOLEAN : NextServeHTTP(dbOk)
    \/ Respond

SpecRouter == Init /\ [][NextRouter]_vars

-----------------------------------------------------------------------------
(* The collector and the membership endpoint together *)

\* no cycle is started once this many snapshots are stored
MaxQuerySnapshots == 2

\* no request is served once the client has had this many admitted
MaxQueryRequests == 1

\* the connection history of the pilot, of the controller and of an identity the
\* feed never reports, asked for under each type name
QueryRequests ==
    {Routed(HttpRequest("10.0.0.1", 4000, ""), "GET", <<"api", "membership", cid, t>>) :
        cid \in {"1", "3", "9"}, t \in {"pilot", "atc", "atis"}}

NextQuery ==
    \/ /\ reply = NoReply
       /\ FetchAndStore(MixedFeed, MaxQuerySnapshots)
       /\ UNCHANGED <<loop, serverVars>>
    \/ LogResult /\ reply = NoReply /\ UNCHANGED <<loop, serverVars>>
    \/ Tick /\ reply = NoReply /\ UNCHANGED <<loop, serverVars>>
    \/ /\ last = NoCall
       /\ \A a \in DOMAIN requests : requests[a].count < MaxQueryRequests
       /\ \E r \in QueryRequests, dbOk \in BOOLEAN : ServeHTTP(r, dbOk)
    \/ \E dbOk \in BOOLEAN : NextServeHTTP(dbOk)
    \/ Respond

SpecQuery == Init /\ [][NextQuery]_vars

-----------------------------------------------------------------------------
(* The collector and the network statistics endpoint together *)

\* no cycle is started once this many snapshots are stored
MaxCurrentSnapshots == 2

\* no snapshot has been fetched
NoData == [update |-> 0, pilots |-> <<>>, controllers |-> <<>>]

\* fetchData: one GET of the data URL; it fails, or returns what the source
\* reports at the time
fetchData(snapshots) ==
    {[err |-> TRUE, data |-> NoData]} \cup {[err |-> FALSE, data |-> d] : d \in snapshots}

\* func (c *Collector) GetCurrentData() { return c.fetchData() }
GetCurrentData(snapshots) == fetchData(snapshots)

\* a cycle of the collection loop; the snapshot its fetchData returned is
\* remembered as loop.fetched
FetchAndStoreCurrent ==
    /\ reply = NoReply
    /\ \E data \in Snapshots(StatsFeed) :
          /\ FetchAndStoreOf({data}, MaxCurrentSnapshots)
          /\ loop' = IF last'.result = "fetch_error" THEN loop
                     ELSE ("fetched" :> data) @@ loop
    /\ UNCHANGED serverVars

\* GetNetworkStatisticsHandler: collector.GetStats(), collector.GetCurrentData(),
\* 500 on its error, else the statistics computed from the data.  gets is the
\* number of GETs of the data URL made while the request was served.
GetNetworkStatisticsHandler ==
    /\ reply = NoReply
    /\ last = NoCall
    /\ \E res \in GetCurrentData(Snapshots(StatsFeed)) :
          reply' = [handler |-> "GetNetworkStatisticsHandler", at |-> now,
                    status |-> IF res.err THEN 500 ELSE 200,
                    stats |-> stats, data |-> res.data, gets |-> 1]
    /\ UNCHANGED <<now, collectorVars, loop, requests, api_keys, env, forwarded>>

NextCurrent ==
    \/ FetchAndStoreCurrent
    \/ LogResult /\ UNCHANGED <<loop, serverVars>>
    \/ Tick /\ reply = NoReply /\ UNCHANGED <<loop, serverVars>>
    \/ GetNetworkStatisticsHandler
    \/ Respond

SpecCurrent == Init /\ [][NextCurrent]_vars

-----------------------------------------------------------------------------
(* Finalization on its own: storeConnectionStats applied to arbitrary pilot     *)
(* sessions, for the claims about the aggregation arithmetic.                   *)

\* no session is finalized once the connections table holds this many rows
MaxAggRows == 2

\* pilot sessions of every rating 0..6 and of durations 0, 59, 60, 125 and 180
\* minutes
AggSessions ==
    {NewActive(cid, "AAL1", TypePilot, r, 0, d) :
        cid \in {1, 2}, r \in 0..6, d \in {0, 59, 60, 125, 180}}

Finalize(conn) ==
    /\ Len(DB.connections) < MaxAggRows
    /\ DB' = storeConnectionStats(DB, conn)
    /\ last' = [result |-> "finalized", conn |-> conn]
    /\ UNCHANGED <<now, lastUpdate, activeConnections, stats>>

NextAgg == \E conn \in AggSessions : Finalize(conn) /\ UNCHANGED <<loop, serverVars>>

SpecAgg == Init /\ [][NextAgg]_vars

-----------------------------------------------------------------------------
(* Vocabulary of the claims *)

Rows == DOMAIN DB.connections

RowKey(i) == Key(DB.connections[i].vatsim_id, DB.connections[i].callsign)

\* rows i and j record the same session: same key, type and start time
SameSession(i, j) ==
    /\ RowKey(i) = RowKey(j)
    /\ DB.connections[i].type = DB.connections[j].type
    /\ DB.connections[i].start_time = DB.connections[j].start_time

\* the rows written by storeConnectionStats: those a statistics row refers to
TerminalRows ==
    {r.connection_id : r \in DB.pilot_stats \cup DB.atc_stats \cup DB.atis_stats}

\* the session of row i has been finalized
Finalized(i) == \E t \in TerminalRows : t \in Rows /\ SameSession(i, t)

\* the cumulative totals of a pilot, zero when the pilot has no row yet
ZeroTotals ==
    [total_hours |-> 0, total_flights |-> 0, student_hours |-> 0, ppl_hours |-> 0,
     instrument_hours |-> 0, cpl_hours |-> 0, atpl_hours |-> 0]

TotalsOf(totals, cid) ==
    IF cid \in DOMAIN totals
    THEN [f \in DOMAIN ZeroTotals |-> totals[cid][f]]
    ELSE ZeroTotals

-----------------------------------------------------------------------------
(* C1 *)

\* the distinct pilot sessions (callsign, logon time) the store holds for cid
PilotSessions(cid) ==
    {<<DB.connections[i].callsign, DB.connections[i].start_time>> :
        i \in {j \in Rows : /\ DB.connections[j].type = TypePilot
                            /\ DB.connections[j].vatsim_id = cid}}

\* C1: exactly-once finalization: no session is applied to the cumulative pilot
\* totals more than once, so a pilot's total_flights never exceeds the number of
\* distinct sessions the pilot has had, also when the key dropped out of one
\* snapshot and came back within the grace window.
C1_ExactlyOnceFinalization ==
    \A cid \in DOMAIN DB.pilot_total_stats :
        DB.pilot_total_stats[cid].total_flights <= Cardinality(PilotSessions(cid))

-----------------------------------------------------------------------------
(* C2 *)

\* C2: when storeData fails, activeConnections after the cycle is what it was
\* before the cycle.
C2_ActiveTableUnchangedOnFailure ==
    [][last'.result = "store_error" => activeConnections' = activeConnections]_vars

-----------------------------------------------------------------------------
(* C3 *)

\* every statistics row refers to a connection row of its own type, and a pilot's
\* total_flights counts exactly the pilot's statistics rows
DurableConsistent ==
    /\ \A r \in DB.pilot_stats :
          r.connection_id \in Rows /\ DB.connections[r.connection_id].type = TypePilot
    /\ \A r \in DB.atc_stats :
          r.connection_id \in Rows /\ DB.connections[r.connection_id].type = TypeATC
    /\ \A r \in DB.atis_stats :
          r.connection_id \in Rows /\ DB.connections[r.connection_id].type = TypeATIS
    /\ \A cid \in DOMAIN DB.pilot_total_stats :
          DB.pilot_total_stats[cid].total_flights =
             Cardinality({r \in DB.pilot_stats :
                             DB.connections[r.connection_id].vatsim_id = cid})
    /\ \A r \in DB.pilot_stats :
          DB.connections[r.connection_id].vatsim_id \in DOMAIN DB.pilot_total_stats

\* C3: the durable writes of a cycle commit together or not at all: a failed
\* cycle leaves every durable table as it was, a stored one adds its snapshot row,
\* and the committed tables never show a statistics row without its connection
\* row or without its increment of the totals.
C3_DurableAtomicity ==
    /\ [][/\ last'.result = "store_error" => DB' = DB
          /\ last'.result = "ok" => DB'.snapshots = DB.snapshots + 1]_vars
    /\ []DurableConsistent

\* a cycle failed after its transaction had inserted the snapshot, written a
\* record and finalized an ended connection
C3_Witness ==
    /\ last.result = "store_error"
    /\ last.writes >= 3
    /\ DB.connections # <<>>

-----------------------------------------------------------------------------
(* C4 *)

\* the rows the store holds for the session that key k has open in memory
SessionRowsOf(k) ==
    {i \in Rows : /\ RowKey(i) = k
                  /\ DB.connections[i].type = activeConnections[k].connectionType}

\* C4: a key that was absent from a snapshot and is present again within the
\* grace window is continued on its one durable row: after the cycle that
\* reopens it the store holds exactly one connection row for the session.
C4_ReopenKeepsOneRow ==
    last.result = "ok" =>
        \A k \in last.reopened : Cardinality(SessionRowsOf(k)) = 1

-----------------------------------------------------------------------------
(* C5 *)

\* intervals of rows i and j do not overlap
Disjoint(i, j) ==
    \/ DB.connections[i].end_time < DB.connections[j].start_time
    \/ DB.connections[j].end_time < DB.connections[i].start_time

\* C5: a key whose session was closed and that is seen again only after the
\* grace window has two session records, the closed one and the new open one,
\* with non-overlapping boundaries.
C5_CloseThenNewSession ==
    last.result = "ok" =>
        \A k \in last.opened :
            LET rows == {i \in Rows : RowKey(i) = k}
            IN (\E i \in rows : i \in TerminalRows) =>
                  /\ Cardinality(rows) = 2
                  /\ \A i, j \in rows : i # j => Disjoint(i, j)

-----------------------------------------------------------------------------
(* C6 *)

\* C6: at most one open row per key: two rows of one key whose end boundary is
\* at or after the current time have a close event (a terminal record of the
\* key) between them.
C6_AtMostOneOpen ==
    \A i, j \in Rows :
        (/\ i < j
         /\ RowKey(i) = RowKey(j)
         /\ DB.connections[i].end_time >= now
         /\ DB.connections[j].end_time >= now)
        => \E t \in (i + 1)..j : t \in TerminalRows /\ RowKey(t) = RowKey(i)

-----------------------------------------------------------------------------
(* C7 *)

\* row i belongs to a session that no later cycle can finalize unless its key is
\* reported again: it has no terminal record and its key is not tracked
Orphaned(i) == ~Finalized(i) /\ RowKey(i) \notin DOMAIN activeConnections

\* C7: every completed connection is finalized: the store never holds a session
\* that is neither finalized nor tracked for finalization, whatever cycle failed
\* or restart happened before.
C7_NoSessionLeftUnfinalized == \A i \in Rows : ~Orphaned(i)

\* An orphaned session stays unfinalized for as long as its key is not reported
\* again: only a cycle that puts the key back into activeConnections ends it.
OrphanStaysOrphan ==
    [][\A i \in Rows :
          Orphaned(i) => \/ i \in DOMAIN DB'.connections /\ Orphaned(i)'
                         \/ RowKey(i) \in DOMAIN activeConnections']_vars

-----------------------------------------------------------------------------
(* C8 *)

-----------------------------------------------------------------------------
(* C9 *)

\* the hours a tier bucket gains from a session of rating r and h hours
Gain(r, tier, h) == IF r = tier THEN h ELSE 0

-----------------------------------------------------------------------------
(* C10 *)

\* C10: the cumulative totals never decrease, whatever logon and last-updated
\* timestamps the source reports.
C10_TotalsMonotonic ==
    [][\A cid \in DOMAIN DB'.pilot_total_stats :
          \A f \in DOMAIN ZeroTotals :
             TotalsOf(DB'.pilot_total_stats, cid)[f]
                >= TotalsOf(DB.pilot_total_stats, cid)[f]]_vars

-----------------------------------------------------------------------------
(* C11 *)

\* the number of records of the snapshot the statistics were last updated from
SnapshotSize(s) == s.ActivePilots + s.ActiveATCs + s.ActiveATIS

-----------------------------------------------------------------------------
(* C12 *)

\* the results of a cycle that failed
Failures == {"fetch_error", "store_error"}

-----------------------------------------------------------------------------
(* C13 *)

-----------------------------------------------------------------------------
(* C14 *)

\* c.stats as the cycle under way found it, and as it will leave it
CycleBefore == IF loop.pc = "stats" THEN loop.before ELSE stats

CycleAfter == IF loop.pc = "stats" THEN StatsAfter(stats, loop.data, loop.step) ELSE stats

\* The assignments made one by one end in the statistics of the stored snapshot.
StatsWritesAgree == loop.pc = "stats" => CycleAfter = loop.after

\* C14: a GetStats call that interleaves with FetchAndStore returns the
\* statistics of a whole cycle: the record as it was before the cycle under way
\* or as that cycle leaves it, never a mix of the two or an intermediate value.
C14_GetStatsNeverTorn ==
    reply.handler = "GetCollectorStats" => reply.body \in {CycleBefore, CycleAfter}

-----------------------------------------------------------------------------
(* C15 *)

\* C15: a record without identity or without callsign is skipped: no connection
\* row and no tracked connection ever carries a missing identity or callsign.
C15_MalformedSkipped ==
    /\ \A i \in Rows : /\ DB.connections[i].vatsim_id # NoCID
                        /\ DB.connections[i].callsign # NoCallsign
    /\ \A k \in DOMAIN activeConnections : /\ activeConnections[k].cid # NoCID
                                            /\ activeConnections[k].callsign # NoCallsign

\* The rest of the batch is reconciled: a stored snapshot that holds the complete
\* controller record leaves it tracked, whatever pilot record came with it.
C15_BatchNotAborted ==
    (last.result = "ok" /\ stats.ActiveATCs = 1) =>
        Key(3, "EGLL_TWR") \in DOMAIN activeConnections

-----------------------------------------------------------------------------
(* C16 *)

\* the record carries at least one non-empty broadcast-text line
HasBroadcastText(controller) ==
    \E i \in DOMAIN controller.text_atis : controller.text_atis[i] # ""

\* the type the classification rule gives the key k of ClassifyFeed
Classified(k) ==
    IF \E p \in ClassifyFeed.pilots : Key(p.cid, p.callsign) = k
    THEN TypePilot
    ELSE LET c == CHOOSE c \in ClassifyFeed.controllers : Key(c.cid, c.callsign) = k
         IN IF HasBroadcastText(c) THEN TypeATIS ELSE TypeATC

\* the tracked connections of a type
Tracked(type) ==
    {k \in DOMAIN activeConnections : activeConnections[k].connectionType = type}

\* C16: a controller record is typed ATIS exactly when it carries at least one
\* non-empty broadcast-text line and ATC otherwise, a pilot record is typed
\* pilot; connection rows and tracked connections carry that type, and after a
\* stored cycle the ActiveATCs / ActiveATIS counts are the numbers of
\* connections tracked with it.
C16_Classification ==
    /\ \A i \in Rows : DB.connections[i].type = Classified(RowKey(i))
    /\ \A k \in DOMAIN activeConnections :
          activeConnections[k].connectionType = Classified(k)
    /\ last.result = "ok" =>
          /\ stats.ActivePilots = Cardinality(Tracked(TypePilot))
          /\ stats.ActiveATCs = Cardinality(Tracked(TypeATC))
          /\ stats.ActiveATIS = Cardinality(Tracked(TypeATIS))

-----------------------------------------------------------------------------
(* C17 *)

RECURSIVE SumOver(_, _)
SumOver(f, S) ==
    IF S = {} THEN 0
    ELSE LET x == CHOOSE x \in S : TRUE IN f[x] + SumOver(f, S \ {x})

\* the requests of ip without a valid key that were passed on to a handler in the
\* last windowDuration minutes
InWindow(ip) ==
    IF ip \in DOMAIN forwarded
    THEN SumOver(forwarded[ip], DOMAIN forwarded[ip])
    ELSE 0

\* C17: for every client address, the requests without a valid API key passed on
\* to a handler within any 5-minute interval never exceed 100.
C17_AtMostMaxPerWindow == \A ip \in DOMAIN forwarded : InWindow(ip) <= maxRequests

\* The bound holds for every value of r.RemoteAddr, that is per IP and port.
LimitPerRemoteAddr ==
    \A addr \in DOMAIN requests :
        /\ requests[addr].count <= maxRequests
        /\ InWindow(addr[1]) <= requests[addr].count

-----------------------------------------------------------------------------
(* C18 *)

\* C18: a client is answered 429 only when 100 of its requests were admitted in
\* the current 5-minute window.
C18_RejectedOnlyAtLimit ==
    (reply.handler = "RateLimit" /\ reply.status = 429 /\ reply.at = now)
        => InWindow(reply.ip) >= maxRequests


\* the request answered in this step went through RateLimit
RateLimitStep == reply = NoReply /\ reply'.handler = "RateLimit"

\* the Authorization header of the request answered in this step is a key of
\* the table that is active
ValidActiveKey ==
    /\ reply'.header # ""
    /\ \E row \in api_keys.rows : row.key = reply'.header /\ row.is_active

\* the request answered in this step was handled as a request without a key is:
\* counted against its client address, forwarded iff the client was under the
\* limit
HandledLikeNoKey ==
    LET addr == <<reply'.ip, reply'.port>>
        client == WindowChecked(ClientOf(CleanedUp(requests), addr))
    IN /\ reply'.next = ~Limited(client)
       /\ reply'.status = IF Limited(client) THEN 429 ELSE 200
       /\ addr \in DOMAIN requests'
       /\ requests'[addr].count =
              IF Limited(client) THEN client.count ELSE client.count + 1
       /\ \A other \in DOMAIN requests' \ {addr} :
              other \in DOMAIN requests /\ requests'[other] = requests[other]

Management == {"CreateAPIKey", "ListAPIKeys", "DeleteAPIKey"}

\* C20: a management request whose Authorization header is not the configured
\* master key is answered 401 without key data and leaves the api_keys table
\* unchanged.
C20_MasterKeyRequired ==
    [][reply = NoReply /\ reply'.handler \in Management
          /\ reply'.header # env.MASTER_API_KEY
       => reply'.status = 401 /\ reply'.body = NoBody /\ api_keys' = api_keys]_vars

\* a delete request carrying an API key of the table, not the master key, was
\* answered 401 and the key is still there
C20_Witness ==
    /\ reply.handler = "DeleteAPIKey"
    /\ reply.status = 401
    /\ reply.header # ""
    /\ \E row \in api_keys.rows : row.key = reply.header /\ row.is_active


\* the request just answered was a GET of /api/membership/{cid}/{type}, and the
\* answer is the final one (not RateLimit's)
MembershipRequestAnswered ==
    /\ reply # NoReply
    /\ "path" \in DOMAIN reply
    /\ reply.method = "GET"
    /\ Len(reply.path) = 4
    /\ reply.path[1] = "api"
    /\ reply.path[2] = "membership"
    /\ reply.handler # "RateLimit"

\* the connection type a type name of the API stands for
TypeNamed(name) ==
    CASE name = "pilot" -> TypePilot [] name = "atc" -> TypeATC [] name = "atis" -> TypeATIS
      [] OTHER -> NoType

\* C21: a GET of /api/membership/{cid}/{type} with type pilot, atc or atis is
\* dispatched to the membership handler with that connection type and is not
\* rejected with 400; any other type value (the debug endpoint aside) is
\* rejected with 400.
C21_MembershipDispatch ==
    MembershipRequestAnswered /\ reply.path[4] # "debug" =>
        IF TypeNamed(reply.path[4]) # NoType
        THEN /\ reply.handler = "GetMembershipHandler"
             /\ reply.typeID = TypeNamed(reply.path[4])
             /\ reply.status # 400
        ELSE reply.status = 400


\* the request just answered asked for the history of an identity under a type
\* name of the API, and was not answered with a server error
HistoryRequestAnswered ==
    /\ MembershipRequestAnswered
    /\ TypeNamed(reply.path[4]) # NoType
    /\ reply.status \notin {429, 500}

\* the durable connection rows the request just answered asked for
RowsAskedFor == MembershipRows(reply.path[3], TypeNamed(reply.path[4]))

\* C22: a session-history request for an identity that has no durable
\* connection rows of the requested type is answered 404, not with a success.
C22_UnknownIdentityNotFound ==
    HistoryRequestAnswered /\ RowsAskedFor = {} => reply.status = 404

\* the handler's own answer, were it called with the type of the request:
\* getMembershipData returns no error for an identity without rows
C22_HandlerNotFound ==
    \A cid \in {"1", "3", "9"}, typeID \in {TypePilot, TypeATC, TypeATIS} :
        MembershipRows(cid, typeID) = {} =>
            getMembershipData(cid, typeID, TRUE).err = "ErrNoRows"

\* items holds one item per row of ids and is ordered by start time
HoldsEvery(items, ids) ==
    /\ {items[k].id : k \in DOMAIN items} = ids
    /\ Len(items) = Cardinality(ids)
    /\ \A k \in DOMAIN items :
          k < Len(items) => items[k].start_time >= items[k + 1].start_time

\* C23: a session-history request for an identity that has durable connection
\* rows of the requested type succeeds and returns every such row, rows of open
\* sessions included, ordered by start time.
C23_HistoryHoldsEveryRow ==
    HistoryRequestAnswered /\ RowsAskedFor # {} =>
        /\ reply.status = 200
        /\ reply.handler = "GetMembershipHandler"
        /\ HoldsEvery(reply.items, RowsAskedFor)

\* the same of getMembershipData itself, called with the requested type
C23_QueryHoldsEveryRow ==
    \A cid \in {"1", "3", "9"}, typeID \in {TypePilot, TypeATC, TypeATIS} :
        MembershipRows(cid, typeID) # {} =>
            /\ getMembershipData(cid, typeID, TRUE).err = "nil"
            /\ HoldsEvery(getMembershipData(cid, typeID, TRUE).items,
                          MembershipRows(cid, typeID))

\* the same for pilot rows only
PilotHistoryHoldsEveryRow ==
    \A cid \in {"1", "3", "9"} :
        /\ getMembershipData(cid, TypePilot, TRUE).err = "nil"
        /\ HoldsEvery(getMembershipData(cid, TypePilot, TRUE).items,
                      MembershipRows(cid, TypePilot))


\* the router takes a request in this step; Arriving is that request
Arrives == reply = NoReply /\ reply' # NoReply /\ "path" \in DOMAIN reply'
Arriving == [x \in {"ip", "port", "header", "method", "path"} |-> reply'[x]]

\* the handler of the route the arriving request matches
ArrivingHandler == Routes[Match(Arriving)].handler

\* C24: a POST, GET or DELETE of /api/keys never passes through the rate
\* limiter: it is answered by its management handler, never with 429, and
\* changes no client's counter.  A request to any other route of /api is taken
\* by RateLimit first (rejected with 429, or counted and passed on), and the
\* route's handler answers only what RateLimit has passed on.
C24_KeyRoutesNotLimited ==
    [][/\ Arrives /\ Match(Arriving) # 0 =>
            IF Arriving.path = <<"api", "keys">>
            THEN /\ reply'.handler = ArrivingHandler
                 /\ reply'.handler \in Management
                 /\ reply'.status # 429
                 /\ requests' = requests
            ELSE /\ reply'.handler = "RateLimit"
                 /\ reply'.next = (reply'.status # 429)
                 /\ RemoteAddr(Arriving) \in DOMAIN requests'
                 /\ reply'.next /\ ~ValidateAPIKey(Arriving.header, TRUE) =>
                       /\ requests'[RemoteAddr(Arriving)].count >= 1
                       /\ RemoteAddr(Arriving) \in DOMAIN requests =>
                             requests'[RemoteAddr(Arriving)].count =
                                 requests[RemoteAddr(Arriving)].count + 1
       /\ reply # NoReply /\ reply' # NoReply /\ reply' # reply =>
            /\ reply.handler = "RateLimit"
            /\ reply.next
            /\ reply'.handler \notin Management \cup {"RateLimit"}
            /\ requests' = requests]_vars

\* a key-management request was answered by its handler while its client is at
\* the limit
C24_Witness ==
    /\ reply # NoReply
    /\ reply.handler = "ListAPIKeys"
    /\ reply.status = 200
    /\ <<reply.ip, reply.port>> \in DOMAIN requests
    /\ requests[<<reply.ip, reply.port>>].count = maxRequests


\* the connection rows of key k in a connections table
RowsOfKey(conns, k) ==
    {i \in DOMAIN conns : Key(conns[i].vatsim_id, conns[i].callsign) = k}

\* the keys a stored cycle found tracked and left tracked: the tracked keys its
\* snapshot holds
Continued == DOMAIN activeConnections \cap DOMAIN activeConnections'

\* C25: a stored cycle whose snapshot holds a key that is already tracked
\* inserts no connection row for the key, sets the end boundary and rating of an
\* existing row of the key to the values now tracked, and leaves the tracked
\* start time unchanged, whatever the record's last_updated and the wall clock.
C25_ContinuationKeepsRow ==
    [][last'.result = "ok" =>
         \A k \in Continued :
            /\ k \notin last'.opened
            /\ RowsOfKey(DB'.connections, k) = RowsOfKey(DB.connections, k)
            /\ activeConnections'[k].startTime = activeConnections[k].startTime
            /\ \E i \in RowsOfKey(DB.connections, k) :
                  /\ DB'.connections[i].end_time = activeConnections'[k].lastSeen
                  /\ DB'.connections[i].rating = activeConnections'[k].rating]_vars

\* the same, for cycles that run while the newest row of the key still ends
\* inside the look-back of the existing-connection query
ContinuationInsideLookBack ==
    [][last'.result = "ok" =>
         \A k \in Continued :
            (\E i \in RowsOfKey(DB.connections, k) :
                 DB.connections[i].end_time > now - GraceMinutes)
            => /\ k \notin last'.opened
               /\ RowsOfKey(DB'.connections, k) = RowsOfKey(DB.connections, k)
               /\ activeConnections'[k].startTime = activeConnections[k].startTime
               /\ \E i \in RowsOfKey(DB.connections, k) :
                     /\ DB'.connections[i].end_time = activeConnections'[k].lastSeen
                     /\ DB'.connections[i].rating = activeConnections'[k].rating]_vars


\* C26: after every stored cycle the keys of the table of active connections are
\* the keys of the cycle's snapshot: every key the snapshot holds is tracked, and
\* no other.
C26_TableIsSnapshot ==
    [][last'.result = "ok" => DOMAIN activeConnections' = last'.snapshot]_vars

\* a stored cycle has closed the pilot's key and opened the controller's
C26_Witness ==
    /\ last.result = "ok"
    /\ last.opened = {Key(3, "EGLL_TWR")}
    /\ DOMAIN activeConnections = {Key(3, "EGLL_TWR")}
    /\ last.writes = 4
    /\ DB.pilot_stats # {}


\* C27: once a session is finalized no cycle changes the start boundary, the end
\* boundary or the rating of its terminal connection record, nor of any other
\* row of the finalized session: a key that reappears gets a session of its own.
C27_ClosedIsTerminal ==
    [][\A i \in Rows : Finalized(i) => DB'.connections[i] = DB.connections[i]]_vars


\* the keys of the snapshot of a stored cycle that were not tracked and have no
\* connection row ending inside the grace window
Opening ==
    {k \in last'.snapshot \ DOMAIN activeConnections :
        \A i \in RowsOfKey(DB.connections, k) :
           DB.connections[i].end_time <= now - GraceMinutes}

\* the pilot records the source may report for key k at the current time
ReportedPilots(k) ==
    {rec \in {Stamp(r) : r \in PilotFeed.pilots} : Key(rec.cid, rec.callsign) = k}

\* C28: a stored cycle whose snapshot holds a key that is not tracked and has no
\* connection row ending within the last 5 minutes inserts exactly one
\* connection row for the key, with start = the record's logon time and end =
\* its last_updated, and tracks the key with the same start and last-seen time.
C28_OpensOneRow ==
    [][last'.result = "ok" =>
         \A k \in Opening :
            /\ k \in last'.opened
            /\ k \in DOMAIN activeConnections'
            /\ RowsOfKey(DB.connections, k) \subseteq RowsOfKey(DB'.connections, k)
            /\ \E i \in Rows' :
                  /\ RowsOfKey(DB'.connections, k) \ RowsOfKey(DB.connections, k) = {i}
                  /\ \E rec \in ReportedPilots(k) :
                        /\ DB'.connections[i].start_time = rec.logon_time
                        /\ DB'.connections[i].end_time = rec.last_updated
                        /\ activeConnections'[k].startTime = rec.logon_time
                        /\ activeConnections'[k].lastSeen = rec.last_updated]_vars

\* a key that had been closed was opened again after the grace window: the
\* terminal record of the earlier session ends 5 minutes back, the new row now
C28_Witness ==
    /\ last.result = "ok"
    /\ last.opened = {Key(1, "AAL1")}
    /\ Len(DB.connections) = 3
    /\ 2 \in TerminalRows
    /\ DB.connections[2].end_time <= now - GraceMinutes
    /\ DB.connections[3].end_time = now


\* C29: the cursor lastUpdate changes only in a cycle whose store committed,
\* and is then the update token of that cycle's snapshot; a cycle that failed
\* leaves it unchanged, so that the token of the snapshot that failed is still
\* different from the cursor and the snapshot is not skipped when fetched again.
C29_CursorMovesOnCommit ==
    /\ [][/\ lastUpdate' # lastUpdate => last'.result = "ok"
          /\ last'.result = "ok" => lastUpdate' = last'.update
          /\ last = NoCall /\ last'.result \in Failures => lastUpdate' = lastUpdate]_vars
    /\ [](last.result = "store_error" =>
             /\ last.update # lastUpdate
             /\ \A data \in Snapshots(ReopenFeed) :
                   data.update = last.update => ~Unchanged(data))

\* the store of a snapshot failed after an earlier snapshot had been stored: the
\* cursor is still the earlier token
C29_Witness ==
    /\ last.result = "store_error"
    /\ last.writes >= 1
    /\ lastUpdate # 0
    /\ last.update # lastUpdate
    /\ DB.snapshots >= 1


\* the pilot rows of key k that end inside the grace window
InGrace(k) ==
    {i \in RowsOfKey(DB.connections, k) :
        /\ DB.connections[i].type = TypePilot
        /\ DB.connections[i].end_time > now - GraceMinutes}

\* C30: when rows of the key and type of a snapshot record end inside the grace
\* window, a stored cycle continues one of those with the most recent start
\* time: it sets that row's end boundary and rating and nothing else, and leaves
\* every other row of the key unchanged.
C30_MostRecentStartWins ==
    [][last'.result = "ok" =>
         \A k \in last'.snapshot :
            InGrace(k) # {} =>
               \E i \in InGrace(k) :
                  /\ \A j \in InGrace(k) :
                        DB.connections[j].start_time <= DB.connections[i].start_time
                  /\ DB'.connections[i] =
                        [DB.connections[i] EXCEPT
                            !.end_time = activeConnections'[k].lastSeen,
                            !.rating = activeConnections'[k].rating]
                  /\ \A j \in RowsOfKey(DB.connections, k) \ {i} :
                        DB'.connections[j] = DB.connections[j]
                  /\ RowsOfKey(DB'.connections, k) = RowsOfKey(DB.connections, k)]_vars

\* two rows of the key with different start times end at the present time, and
\* the one that started later carries a rating other than the one it was
\* finalized with: it is the row the last cycle continued
C30_Witness ==
    /\ last.result = "ok"
    /\ last.opened = {}
    /\ \E i, j \in Rows :
          /\ RowKey(i) = RowKey(j)
          /\ DB.connections[i].start_time < DB.connections[j].start_time
          /\ DB.connections[i].end_time = now
          /\ DB.connections[j].end_time = now
          /\ \E x \in DB.pilot_stats :
                /\ x.connection_id = j
                /\ x.pilot_rating # DB.connections[j].rating
          /\ DB.connections[j].rating # DB.connections[i].rating


\* the keys the pilots of the pair feed can have
PairKeys == {Key(r.cid, r.callsign) : r \in PairFeed.pilots}

\* the rows of key k are as they were, and no row of the key was added
RowsKept(k) ==
    /\ RowsOfKey(DB'.connections, k) = RowsOfKey(DB.connections, k)
    /\ \A i \in RowsOfKey(DB.connections, k) : DB'.connections[i] = DB.connections[i]

\* one row of key k was added and the others are as they were
OneRowAdded(k) ==
    /\ \E i \in Rows' :
          RowsOfKey(DB'.connections, k) = RowsOfKey(DB.connections, k) \cup {i}
          /\ i \notin Rows
    /\ \A i \in RowsOfKey(DB.connections, k) : DB'.connections[i] = DB.connections[i]

\* What a stored cycle does to key k, told from the key's own rows, its own
\* tracked connection and whether the snapshot holds it: opened, continued,
\* closed, or left alone.
KeyEffect(k) ==
    IF k \in last'.snapshot
    THEN /\ k \in DOMAIN activeConnections'
         /\ activeConnections'[k].cid = k[1]
         /\ activeConnections'[k].callsign = k[2]
         /\ IF InGrace(k) = {}
            THEN /\ k \in last'.opened
                 /\ OneRowAdded(k)
            ELSE /\ k \notin last'.opened
                 /\ RowsOfKey(DB'.connections, k) = RowsOfKey(DB.connections, k)
                 /\ \E i \in InGrace(k) :
                       /\ DB'.connections[i] =
                             [DB.connections[i] EXCEPT
                                 !.end_time = activeConnections'[k].lastSeen,
                                 !.rating = activeConnections'[k].rating]
                       /\ \A j \in RowsOfKey(DB.connections, k) \ {i} :
                             DB'.connections[j] = DB.connections[j]
                 /\ k \in DOMAIN activeConnections =>
                       activeConnections'[k] =
                          [activeConnections[k] EXCEPT
                              !.lastSeen = activeConnections'[k].lastSeen,
                              !.rating = activeConnections'[k].rating]
    ELSE /\ k \notin DOMAIN activeConnections'
         /\ IF k \in DOMAIN activeConnections
            THEN /\ OneRowAdded(k)
                 /\ \E i \in Rows' \ Rows :
                       DB'.connections[i] =
                          [vatsim_id |-> k[1], callsign |-> k[2],
                           type |-> activeConnections[k].connectionType,
                           rating |-> activeConnections[k].rating,
                           start_time |-> activeConnections[k].startTime,
                           end_time |-> activeConnections[k].lastSeen]
            ELSE RowsKept(k)

\* C31: connections are kept per key (identity and callsign together): what a
\* stored cycle does to a key's tracked connection and to its connection rows is
\* told by the key's own state and record alone, so that opening, continuing or
\* closing one key leaves the tracked connection and the rows of every other key,
\* also one of the same identity or of the same callsign, as the other key's own
\* record has them; two keys the snapshot holds are tracked each on its own.
C31_KeysIndependent ==
    [][last'.result = "ok" =>
         /\ \A k \in PairKeys : KeyEffect(k)
         /\ \A i \in Rows : RowKey(i) \in PairKeys
         /\ DOMAIN activeConnections \subseteq PairKeys]_vars

\* the two callsigns of identity 1 were stored and tracked; after a restart the
\* first of them is continued and identity 2 is opened under the same callsign,
\* while the row of the second callsign is as it was written
C31_Witness ==
    /\ last.result = "ok"
    /\ last.opened = {Key(2, "AAL1")}
    /\ last.reopened = {Key(1, "AAL1")}
    /\ DOMAIN activeConnections = {Key(1, "AAL1"), Key(2, "AAL1")}
    /\ Len(DB.connections) = 3
    /\ \E i \in Rows : RowKey(i) = Key(1, "BAW2") /\ DB.connections[i].start_time = -60
    /\ activeConnections[Key(1, "AAL1")].startTime = -120
    /\ activeConnections[Key(2, "AAL1")].startTime = -30


\* the tracked connections a step drops: the key is no longer tracked, or is
\* tracked with another connection (another start time or type) than before
Discarded ==
    {k \in DOMAIN activeConnections :
        \/ k \notin DOMAIN activeConnections'
        \/ activeConnections'[k] #
              [activeConnections[k] EXCEPT
                  !.lastSeen = activeConnections'[k].lastSeen,
                  !.rating = activeConnections'[k].rating]}

\* the statistics table of a connection type
StatsTable(db, type) ==
    CASE type = TypePilot -> db.pilot_stats
      [] type = TypeATC -> db.atc_stats
      [] OTHER -> db.atis_stats

\* the step has written the terminal record of connection conn and its
\* type-specific statistics
FinalizedInStep(conn) ==
    \E i \in Rows' \ Rows :
       /\ DB'.connections[i] =
             [vatsim_id |-> conn.cid, callsign |-> conn.callsign,
              type |-> conn.connectionType, rating |-> conn.rating,
              start_time |-> conn.startTime, end_time |-> conn.lastSeen]
       /\ \E x \in StatsTable(DB', conn.connectionType) : x.connection_id = i

\* C32: whenever a stored cycle drops a tracked connection, by removing its key
\* or by tracking another connection under the key, the cycle has written that
\* connection's terminal record and its type-specific statistics; so too for a
\* controller key reported without ATIS text in one snapshot and with it in the
\* next.
C32_NoSessionDiscardedUnfinalized ==
    [][last'.result = "ok" =>
         \A k \in Discarded : FinalizedInStep(activeConnections[k])]_vars


\* the collector has been restarted: it tracks nothing, the store has its rows
AfterRestart == activeConnections = EmptyMap /\ DB.connections # <<>>

\* key k is resumed from row i: no row is added for the key, the row's end
\* boundary is set to the time the key was last seen, and the key is tracked
\* again with the start time of the row
ResumedFrom(k, i) ==
    /\ k \notin last'.opened
    /\ RowsOfKey(DB'.connections, k) = RowsOfKey(DB.connections, k)
    /\ k \in DOMAIN activeConnections'
    /\ DB'.connections[i].end_time = activeConnections'[k].lastSeen
    /\ DB'.connections[i].start_time = DB.connections[i].start_time
    /\ activeConnections'[k].startTime = DB.connections[i].start_time

\* C33: in the first stored cycle after a restart, a key of the snapshot with a
\* row ending inside the grace window is resumed from such a row: no row is
\* inserted for it, the row's end boundary is advanced, and the key is tracked
\* again with the start time the session has in the store.
C33_ResumeAfterRestart ==
    [][AfterRestart /\ last'.result = "ok" =>
         \A k \in last'.snapshot :
            InGrace(k) # {} => \E i \in InGrace(k) : ResumedFrom(k, i)]_vars

\* what holds of the resumed key whatever logon time its record carries: no row
\* is inserted, the end boundary of a row in the grace window is advanced and
\* the key is tracked again
ResumeKeepsRow ==
    [][AfterRestart /\ last'.result = "ok" =>
         \A k \in last'.snapshot :
            InGrace(k) # {} =>
               /\ k \notin last'.opened
               /\ k \in last'.reopened
               /\ RowsOfKey(DB'.connections, k) = RowsOfKey(DB.connections, k)
               /\ k \in DOMAIN activeConnections'
               /\ \E i \in InGrace(k) :
                     DB'.connections[i].end_time = activeConnections'[k].lastSeen]_vars


\* the step serves a request for the network statistics
CurrentDataServed == reply = NoReply /\ reply'.handler = "GetNetworkStatisticsHandler"

\* C34: a request served through GetCurrentData, once the loop has fetched a
\* snapshot, is answered from that snapshot, without a GET of the data URL, and
\* leaves the cursor, the table of active connections and the counters as they
\* were.
C34_CurrentDataIsLastFetched ==
    [][CurrentDataServed /\ "fetched" \in DOMAIN loop =>
         /\ reply'.gets = 0
         /\ reply'.status = 200
         /\ reply'.data = loop.fetched
         /\ UNCHANGED <<lastUpdate, activeConnections, stats>>]_vars

\* the part that holds: the call leaves the collector as it was
CurrentDataChangesNothing ==
    [][CurrentDataServed => UNCHANGED <<lastUpdate, activeConnections, stats, DB, loop>>]_vars


\* the step is RateLimit serving a request at the present time
LimiterStep == now' = now /\ reply'.handler = "RateLimit"

\* the address of the client served in the step
Served == <<reply'.ip, reply'.port>>

\* the client has used up its requests
Blocked(addr) == addr \in DOMAIN requests /\ requests[addr].count >= maxRequests

\* the time of the last request of ip that RateLimit passed on
LastAdmitted(ip) ==
    CHOOSE t \in DOMAIN forwarded[ip] : \A u \in DOMAIN forwarded[ip] : u <= t

Admitted == SumOver(loop.observed, DOMAIN loop.observed)

\* the goroutines that passed the check and have not yet written the count
Incrementing == {i \in Goroutines : loop.g[i].pc \in {"load", "store"}}

\* the count of the client, 0 before its entry exists
CountOf(addr) == IF addr \in DOMAIN requests THEN requests[addr].count ELSE 0

\* C36: however the requests of one client address interleave, no two requests
\* that pass the check have read the same count, every request that passed it
\* is counted (the count is the number of those requests, less the ones that are
\* about to write it), and no more than 100 pass within the window.
C36_CheckAndIncrementAtomic ==
    /\ \A v \in DOMAIN loop.observed : loop.observed[v] <= 1
    /\ CountOf(RemoteAddr(ConcRequest)) + Cardinality(Incrementing) = Admitted
    /\ Admitted <= maxRequests
    /\ InWindow(ConcRequest.ip) <= maxRequests

\* 100 requests were passed on, each having read another count; one goroutine is
\* rejecting the next request while the other waits for the mutex
C36_Witness ==
    /\ CountOf(RemoteAddr(ConcRequest)) = maxRequests
    /\ DOMAIN loop.observed = 0..(maxRequests - 1)
    /\ InWindow(ConcRequest.ip) = maxRequests
    /\ \E i, j \in Goroutines :
          /\ loop.g[i].pc = "reject"
          /\ loop.g[i].seen = maxRequests
          /\ loop.g[j].pc = "lock"


\* the pilot and the controller records of the snapshot a step stored: the rows
\* it added to the pilots and to the controllers table
PilotsStored == DB'.pilots - DB.pilots
ControllersStored == DB'.controllers - DB.controllers

\* a cycle ends in this step with the given result
CycleEnds(results) == last = NoCall /\ last'.result \in results

\* C37: a cycle that stores a snapshot adds 1 to TotalSnapshots and the
\* snapshot's pilot count to ProcessedPilots, and leaves ActivePilots +
\* ActiveATCs + ActiveATIS equal to the number of pilot and controller records of
\* the snapshot; a cycle that is skipped or fails changes no counter.
C37_CollectionCounters ==
    [][/\ CycleEnds({"ok"}) =>
            /\ stats'.TotalSnapshots = stats.TotalSnapshots + 1
            /\ stats'.ProcessedPilots = stats.ProcessedPilots + PilotsStored
            /\ stats'.ActivePilots = PilotsStored
            /\ stats'.ActiveATCs + stats'.ActiveATIS = ControllersStored
            /\ SnapshotSize(stats') = PilotsStored + ControllersStored
       /\ CycleEnds({"unchanged", "fetch_error", "store_error"}) => stats' = stats]_vars

\* the second snapshot with a pilot and a position carrying ATIS text was stored
C37_Witness ==
    /\ last.result = "ok"
    /\ stats.TotalSnapshots = 2
    /\ stats.ProcessedPilots = 2
    /\ stats.ActivePilots = 1
    /\ stats.ActiveATIS = 1
    /\ stats.ActiveATCs = 0


\* C38: a management request without Authorization header (the header is read as
\* "") is answered 401 without key data and leaves the api_keys table unchanged,
\* whatever MASTER_API_KEY is, also when it is unset or empty.
C38_NoHeaderNeverAuthorized ==
    [][reply = NoReply /\ reply'.handler \in Management /\ reply'.header = ""
       => reply'.status = 401 /\ reply'.body = NoBody /\ api_keys' = api_keys]_vars

\* the same with MASTER_API_KEY set to a non-empty value
NoHeaderRejectedWithMasterKey ==
    [][reply = NoReply /\ reply'.handler \in Management /\ reply'.header = ""
          /\ env.MASTER_API_KEY # ""
       => reply'.status = 401 /\ reply'.body = NoBody /\ api_keys' = api_keys]_vars

====
